---- MODULE Spec2Model ----
(***************************************************************************)
(* GridWorld training engine: the hooks useTraining, useQLearning and      *)
(* useGridWorld with the grid/RL utility functions they call.              *)
(*                                                                         *)
(* Two conventions of the model:                                           *)
(*  - JavaScript values.  The utility functions are called with arguments  *)
(*    in an order and of a kind other than their parameters (an array for  *)
(*    a row number, the grid for a position, ...).  What they return then  *)
(*    is decided by JavaScript's coercions, so the functions are modelled  *)
(*    over tagged JavaScript values (Num, Undefined, NaN, Str, Arr, ...).  *)
(*    Fractions are fixed point, SCALE units to 1.                         *)
(*  - Closures.  A callback created in a render reads the state of that    *)
(*    render for ever; setX(v) and setX(prev => ...) write the live state; *)
(*    refs (trainingRef, performanceRef) are live.  Every handler is an    *)
(*    operator H(S, W): S the render it was created in, W the live world,  *)
(*    the result the world after it.  A pending timer holds its render.    *)
(***************************************************************************)
EXTENDS Integers, Sequences, FiniteSets, TLC

(***************************************************************************)
(* Bounds of the model                                                     *)
(***************************************************************************)
\* grid side of the initial configuration (GRID_SIZE.DEFAULT is 8 in the code)
GridSize == 3
\* TRAINING.MAX_STEPS_PER_EPISODE (200 in the code), scaled down
MAX_STEPS_PER_EPISODE == 1
\* TRAINING.MAX_EPISODES (1000 in the code), scaled down
MAX_EPISODES == 2
\* cap on currentStep: no step is taken beyond it
MaxTotalSteps == 4
\* cap on currentEpisode: no episode is completed beyond it
MaxCompleted == 2
\* cap on the number of pending timers
MaxTimers == 2
\* completeEpisode decays epsilon when that many episodes have gone by since
\* the last decay (10 in the code), scaled down
EpsilonUpdateEvery == 1

(***************************************************************************)
(* JavaScript values                                                       *)
(***************************************************************************)
\* the fixed-point unit: three decimal digits
SCALE == 10 * 10 * 10

Num(x) == [k |-> "num", n |-> x, s |-> "", a |-> <<>>]
Undefined == [k |-> "undefined", n |-> 0, s |-> "", a |-> <<>>]
NaN == [k |-> "nan", n |-> 0, s |-> "", a |-> <<>>]
NegInfinity == [k |-> "-inf", n |-> 0, s |-> "", a |-> <<>>]
Str(x) == [k |-> "str", n |-> 0, s |-> x, a |-> <<>>]
Bool(b) == [k |-> "bool", n |-> IF b THEN 1 ELSE 0, s |-> "", a |-> <<>>]
Arr(x) == [k |-> "arr", n |-> 0, s |-> "", a |-> x]
\* a plain object none of whose properties the callee reads
Obj == [k |-> "obj", n |-> 0, s |-> "", a |-> <<>>]
\* a reward preset { GOAL, STEP, WALL, OUT_OF_BOUNDS }
Rewards(g, st, w, o) == [k |-> "rewards", n |-> 0, s |-> "", a |-> <<Num(g), Num(st), Num(w), Num(o)>>]

\* ToNumber: a string here is never numeric (a cell kind, or a join of
\* cells); an array converts through its join.
RECURSIVE ToNumber(_)
ToNumber(v) ==
    CASE v.k = "num" -> v
      [] v.k = "bool" -> Num(v.n)
      [] v.k = "-inf" -> v
      [] v.k = "arr" -> IF Len(v.a) = 0 THEN Num(0)
                        ELSE IF Len(v.a) = 1 /\ v.a[1].k \in {"num", "str", "arr"}
                             THEN ToNumber(v.a[1])
                             ELSE NaN
      [] OTHER -> NaN

\* a < b and a >= b, for operands that are not both strings
JsLt(x, y) ==
    LET p == ToNumber(x)
        q == ToNumber(y)
    IN  CASE p.k = "nan" \/ q.k = "nan" -> FALSE
          [] q.k = "-inf" -> FALSE
          [] p.k = "-inf" -> TRUE
          [] OTHER -> p.n < q.n

JsGe(x, y) ==
    LET p == ToNumber(x)
        q == ToNumber(y)
    IN  CASE p.k = "nan" \/ q.k = "nan" -> FALSE
          [] q.k = "-inf" -> TRUE
          [] p.k = "-inf" -> FALSE
          [] OTHER -> p.n >= q.n

JsGt(x, y) == JsLt(y, x)

Truthy(v) ==
    CASE v.k = "num" -> v.n # 0
      [] v.k = "bool" -> v.n = 1
      [] v.k = "str" -> v.s # ""
      [] v.k \in {"arr", "obj", "rewards", "-inf"} -> TRUE
      [] OTHER -> FALSE

\* x + y: numeric addition, or concatenation into a (non-numeric) string as
\* soon as one operand is a string, an array or an object
JsAdd(x, y) ==
    IF x.k \in {"str", "arr", "obj", "rewards"} \/ y.k \in {"str", "arr", "obj", "rewards"}
    THEN Str("<joined>")
    ELSE LET p == ToNumber(x)
             q == ToNumber(y)
         IN  CASE p.k = "nan" \/ q.k = "nan" -> NaN
               [] p.k = "-inf" \/ q.k = "-inf" -> NegInfinity
               [] OTHER -> Num(p.n + q.n)

\* x - y
JsSub(x, y) ==
    LET p == ToNumber(x)
        q == ToNumber(y)
    IN  CASE p.k = "nan" \/ q.k = "nan" -> NaN
          [] p.k = "-inf" /\ q.k = "-inf" -> NaN
          [] p.k = "-inf" -> NegInfinity
          [] q.k = "-inf" -> NaN \* +Infinity does not occur in a Q-table; see qLearningUpdate
          [] OTHER -> Num(p.n - q.n)

\* x * y of two fixed-point fractions
JsMul(x, y) ==
    LET p == ToNumber(x)
        q == ToNumber(y)
    IN  CASE p.k = "nan" \/ q.k = "nan" -> NaN
          [] p.k = "-inf" \/ q.k = "-inf" ->
               IF (p.k = "num" /\ p.n = 0) \/ (q.k = "num" /\ q.n = 0) THEN NaN ELSE NegInfinity
          [] OTHER -> Num((p.n * q.n) \div SCALE)

\* Math.max(x, y), Math.min(x, y)
MathMax(x, y) ==
    LET p == ToNumber(x)
        q == ToNumber(y)
    IN  CASE p.k = "nan" \/ q.k = "nan" -> NaN
          [] p.k = "-inf" -> q
          [] q.k = "-inf" -> p
          [] OTHER -> IF p.n >= q.n THEN p ELSE q

MathMin(x, y) ==
    LET p == ToNumber(x)
        q == ToNumber(y)
    IN  CASE p.k = "nan" \/ q.k = "nan" -> NaN
          [] p.k = "-inf" -> p
          [] q.k = "-inf" -> q
          [] OTHER -> IF p.n <= q.n THEN p ELSE q

\* x === y: NaN equals nothing, and two arrays or objects are the same only
\* when they are one object, which no comparison of this model is about
JsStrictEq(x, y) == x.k \notin {"nan", "arr", "obj", "rewards"} /\ x = y

\* x ?? y
Nullish(x, y) == IF x.k = "undefined" THEN y ELSE x

\* x || y
JsOr(x, y) == IF Truthy(x) THEN x ELSE y

\* v.length
JsLength(v) == IF v.k = "arr" THEN Num(Len(v.a)) ELSE Undefined

\* v[i] of an array (an index that is no array index reads a missing property)
JsIndex(v, i) ==
    IF v.k = "arr" /\ i.k = "num" /\ i.n >= 0 /\ i.n < Len(v.a)
    THEN v.a[i.n + 1]
    ELSE Undefined

\* preset.GOAL, preset.STEP, preset.WALL, preset.OUT_OF_BOUNDS
RewardField(v, name) ==
    IF v.k = "rewards"
    THEN (CASE name = "GOAL" -> v.a[1]
            [] name = "STEP" -> v.a[2]
            [] name = "WALL" -> v.a[3]
            [] name = "OUT_OF_BOUNDS" -> v.a[4])
    ELSE Undefined

(***************************************************************************)
(* constants.js                                                            *)
(***************************************************************************)
\* Object.values(ACTIONS), in the order of its keys UP, DOWN, LEFT, RIGHT
ACTION_VALUES == <<"up", "down", "left", "right">>

ActionSet == {ACTION_VALUES[i] : i \in 1..4}

ACTION_VECTORS(action) ==
    CASE action = "up" -> <<-1, 0>>
      [] action = "down" -> <<1, 0>>
      [] action = "left" -> <<0, -1>>
      [] action = "right" -> <<0, 1>>

REWARDS_DEFAULT == Rewards(100 * SCALE, -1 * SCALE, -10 * SCALE, -10 * SCALE)
REWARDS_SPARSE == Rewards(1 * SCALE, 0, 0, 0)
REWARDS_DENSE == Rewards(100 * SCALE, -1 * SCALE, -50 * SCALE, -50 * SCALE)

(***************************************************************************)
(* gridUtils.js.  A position of the state is <<row, col>>, NoPos when it   *)
(* is null; a grid of the state is its side and its set of wall cells.     *)
(***************************************************************************)
NoPos == <<>>

Cells(size) == (0..(size - 1)) \X (0..(size - 1))

JsPos(p) == Arr(<<Num(p[1]), Num(p[2])>>)

\* the grid as the array of arrays of cell kinds the code holds
JsGrid(walls, size) ==
    Arr([r \in 1..size |->
          Arr([c \in 1..size |->
                Str(IF <<r - 1, c - 1>> \in walls THEN "wall" ELSE "empty")])])

\* row >= 0 && row < gridSize && col && col < gridSize
isValidPosition(row, col, gridSize) ==
    JsGe(row, Num(0)) /\ JsLt(row, gridSize) /\ Truthy(col) /\ JsLt(col, gridSize)

isWall(grid, row, col) ==
    IF ~isValidPosition(row, col, JsLength(grid))
    THEN TRUE
    ELSE JsStrictEq(JsIndex(JsIndex(grid, row), col), Str("wall"))

\* [row + dRow, col + dCol]
getNextPosition(currentPos, action) ==
    LET row == JsIndex(currentPos, Num(0))
        col == JsIndex(currentPos, Num(1))
        d == ACTION_VECTORS(action)
    IN  Arr(<<JsAdd(row, Num(d[1])), JsAdd(col, Num(d[2]))>>)

RECURSIVE SelectSeq2(_, _, _)
\* the elements of seq, in order, that satisfy keep
SelectSeq2(seq, keep, i) ==
    IF i > Len(seq) THEN <<>>
    ELSE IF seq[i] \in keep THEN <<seq[i]>> \o SelectSeq2(seq, keep, i + 1)
         ELSE SelectSeq2(seq, keep, i + 1)

\* getValidActions(grid, position); its isWall is asked about the preset
\* names GRID_PRESENTS, not about the grid
getValidActions(grid, position) ==
    LET row == JsIndex(position, Num(0))
        col == JsIndex(position, Num(1))
        ok(action) ==
            LET next == getNextPosition(Arr(<<row, col>>), action)
                nextRow == JsIndex(next, Num(0))
                nextCol == JsIndex(next, Num(1))
            IN  /\ isValidPosition(nextRow, nextCol, JsLength(grid))
                /\ ~isWall(Obj, nextRow, nextCol)
    IN  SelectSeq2(ACTION_VALUES, {a \in ActionSet : ok(a)}, 1)

positionToState(position, gridSize) == position[1] * gridSize + position[2]

\* a faulty stateToPosition: the column first
stateToPositionColFirst(state, gridSize) == <<state % gridSize, state \div gridSize>>

stateToPosition(state, gridSize) == <<state \div gridSize, state % gridSize>>

positionsEqual(pos1, pos2) == pos1[1] = pos2[1] /\ pos1[2] = pos2[2]

FromJsPos(p) == <<p.a[1].n, p.a[2].n>>

(***************************************************************************)
(* rlAlgorithms.js.  A Q-table is [isArray, rows]: isArray while it is the *)
(* array initializeQTable made (it has a length), and rows[state] is a row *)
(* [kind, idx, name]: idx the values under the numeric keys 0..3, name the *)
(* values under the keys up, down, left, right; a key that is absent reads *)
(* Undefined.                                                              *)
(***************************************************************************)
Zeros4 == <<Num(0), Num(0), Num(0), Num(0)>>

Undef4 == <<Undefined, Undefined, Undefined, Undefined>>

AbsentRow == [kind |-> "absent", idx |-> Undef4, name |-> Undef4]

\* Array(numActions).fill(0)
ArrayRow == [kind |-> "array", idx |-> Zeros4, name |-> Undef4]

\* {} filled with newQTable[state][a] = 0 for the four action names
NamedRow == [kind |-> "object", idx |-> Undef4, name |-> Zeros4]

States(size) == 0..(size * size - 1)

\* {}
EmptyQTable == [isArray |-> FALSE, rows |-> [st \in {} |-> AbsentRow]]

initializeQTable(gridSize) ==
    [isArray |-> TRUE, rows |-> [st \in States(gridSize) |-> ArrayRow]]

\* qTable[state]
QRow(qTable, state) ==
    IF state \in DOMAIN qTable.rows THEN qTable.rows[state] ELSE AbsentRow

\* Object.keys(ACTIONS).indexOf(action.toUpperCase()), 0-based
actionToIndex(action) == CHOOSE i \in 0..3 : ACTION_VALUES[i + 1] = action

RECURSIVE GreedyScanLast(_, _, _, _, _)
\* the forEach of epsilonGreedyAction with qValue >= bestValue
GreedyScanLast(row, validActions, i, bestAction, bestValue) ==
    IF i > Len(validActions) THEN bestAction
    ELSE LET qValue == row.idx[actionToIndex(validActions[i]) + 1]
         IN  IF JsGe(qValue, bestValue)
             THEN GreedyScanLast(row, validActions, i + 1, validActions[i], qValue)
             ELSE GreedyScanLast(row, validActions, i + 1, bestAction, bestValue)

RECURSIVE GreedyScan(_, _, _, _, _)
\* the forEach of epsilonGreedyAction: qValue > bestValue replaces the best
GreedyScan(row, validActions, i, bestAction, bestValue) ==
    IF i > Len(validActions) THEN bestAction
    ELSE LET qValue == row.idx[actionToIndex(validActions[i]) + 1]
         IN  IF JsGt(qValue, bestValue)
             THEN GreedyScan(row, validActions, i + 1, validActions[i], qValue)
             ELSE GreedyScan(row, validActions, i + 1, bestAction, bestValue)

\* the outcome of a call that throws a TypeError
Throws == "TypeError"

\* the set of actions epsilonGreedyAction may return; its exploiting branch
\* reads qTable[state][actionIndex], which throws when qTable[state] is
\* undefined
epsilonGreedyAction(qTable, state, epsilon, validActions) ==
    IF Len(validActions) = 0 THEN {"up"}
    ELSE LET greedy == IF QRow(qTable, state).kind = "absent" THEN Throws
                       ELSE GreedyScan(QRow(qTable, state), validActions, 1,
                                       validActions[1], NegInfinity)
             p == ToNumber(epsilon)
         IN  \* Math.random() is in [0, 1): it is below epsilon for some draw
             \* iff epsilon > 0, and not below it for some draw iff epsilon < 1
             (IF p.k \in {"num"} /\ p.n > 0 THEN {validActions[i] : i \in 1..Len(validActions)} ELSE {})
             \cup (IF p.k = "num" /\ p.n >= SCALE THEN {} ELSE {greedy})

\* Math.sqrt of a fixed-point number, rounded down
ISqrt(x) == CHOOSE r \in 0..(2 * SCALE) : r * r <= x * SCALE /\ x * SCALE < (r + 1) * (r + 1)

\* Math.log(totalSteps + 1) in fixed point, for totalSteps up to 2
LnSteps(totalSteps) == <<0, 693, 1099>>[totalSteps + 1]

\* actionCounts as selectAction receives it: null, an object without the
\* state, or the counts of the state's four actions
NullCounts == [k |-> "null", row |-> <<0, 0, 0, 0>>]
ObjCounts == [k |-> "obj", row |-> <<0, 0, 0, 0>>]
Counts(row) == [k |-> "counts", row |-> row]

RECURSIVE UcbScan(_, _, _, _, _, _, _)
\* the forEach of ucbAction: ucbValue > bestValue replaces the best, with
\* ucbValue = qValue + c * sqrt(log(totalSteps + 1) / (count || 1)), c = 2
UcbScan(row, validActions, counts, totalSteps, i, bestAction, bestValue) ==
    IF i > Len(validActions) THEN bestAction
    ELSE LET actionIndex == actionToIndex(validActions[i])
             qValue == row.idx[actionIndex + 1]
             count == IF counts[actionIndex + 1] = 0 THEN 1 ELSE counts[actionIndex + 1]
             ucbValue == JsAdd(qValue, Num(2 * ISqrt(LnSteps(totalSteps) \div count)))
         IN  IF JsGt(ucbValue, bestValue)
             THEN UcbScan(row, validActions, counts, totalSteps, i + 1, validActions[i], ucbValue)
             ELSE UcbScan(row, validActions, counts, totalSteps, i + 1, bestAction, bestValue)

\* the set of outcomes of ucbAction; qTable[state][i] and
\* actionCounts[state][i] throw when qTable[state], actionCounts or
\* actionCounts[state] is null or undefined
ucbAction(qTable, state, validActions, actionCounts, totalSteps) ==
    IF Len(validActions) = 0 THEN {"up"}
    ELSE IF QRow(qTable, state).kind = "absent" \/ actionCounts.k # "counts" THEN {Throws}
    ELSE {UcbScan(QRow(qTable, state), validActions, actionCounts.row, totalSteps, 1,
                  validActions[1], NegInfinity)}

\* Math.exp(qValue / temperature) up to what the sampling depends on: NaN, 0
\* (an argument below -745.13), Infinity (an argument above 709.78) or a
\* positive number
ExpClass(qValue, temperature) ==
    LET q == ToNumber(qValue)
        t == ToNumber(temperature)
    IN  IF q.k # "num" \/ t.k # "num" THEN "nan"
        ELSE IF t.n = 0
        THEN (IF q.n > 0 THEN "inf" ELSE IF q.n < 0 THEN "zero" ELSE "nan")
        ELSE IF (t.n > 0 /\ q.n * 100 > 70978 * t.n) \/ (t.n < 0 /\ q.n * 100 < 70978 * t.n)
        THEN "inf"
        ELSE IF (t.n > 0 /\ q.n * 100 < (0 - 74513) * t.n)
                \/ (t.n < 0 /\ q.n * 100 > (0 - 74513) * t.n)
        THEN "zero"
        ELSE "pos"

\* the probabilities of boltzmannAction, val / sumExp, by class
BoltzmannProbs(row, validActions, temperature) ==
    LET n == Len(validActions)
        expValues == [i \in 1..n |->
                        ExpClass(row.idx[actionToIndex(validActions[i]) + 1], temperature)]
        sumExp == IF \E i \in 1..n : expValues[i] = "nan" THEN "nan"
                  ELSE IF \E i \in 1..n : expValues[i] = "inf" THEN "inf"
                  ELSE IF \E i \in 1..n : expValues[i] = "pos" THEN "pos"
                  ELSE "zero"
    IN  [i \in 1..n |->
            CASE sumExp = "nan" -> "nan"
              [] sumExp = "zero" -> "nan"
              [] sumExp = "inf" -> IF expValues[i] = "inf" THEN "nan" ELSE "zero"
              [] OTHER -> expValues[i]]

\* boltzmannAction with ACTIONS.UP returned after the loop
boltzmannActionUpFallback(qTable, state, validActions, temperature) ==
    IF Len(validActions) = 0 THEN {"up"}
    ELSE IF QRow(qTable, state).kind = "absent" THEN {Throws}
    ELSE LET n == Len(validActions)
             probabilities == BoltzmannProbs(QRow(qTable, state), validActions, temperature)
         IN  {validActions[i] : i \in {j \in 1..n :
                                        /\ \A k \in 1..j : probabilities[k] # "nan"
                                        /\ probabilities[j] = "pos" \/ j = 1}}
             \cup {"up"}

\* the set of outcomes of boltzmannAction.  The loop returns validActions[i]
\* for some draw iff cumulative is a number up to i and either
\* probabilities[i] is positive or i is the first index (a draw of 0); the
\* return after the loop is taken when cumulative is NaN, or stays below
\* the draw by rounding.
boltzmannAction(qTable, state, validActions, temperature) ==
    IF Len(validActions) = 0 THEN {"up"}
    ELSE IF QRow(qTable, state).kind = "absent" THEN {Throws}
    ELSE LET n == Len(validActions)
             probabilities == BoltzmannProbs(QRow(qTable, state), validActions, temperature)
         IN  {validActions[i] : i \in {j \in 1..n :
                                        /\ \A k \in 1..j : probabilities[k] # "nan"
                                        /\ probabilities[j] = "pos" \/ j = 1}}
             \cup {validActions[n]}

\* selectAction(qTable, state, validActions, params, actionCounts, totalSteps),
\* params given by the three properties it destructures.  constants.js
\* spells the third strategy BOLTZMAN: 'boltzman', so
\* EXPLORATION_STRATEGIES.BOLTZMANN is undefined: that case is taken when
\* params has no explorationStrategy, and 'boltzman' falls to the default.
selectAction(qTable, state, validActions, params, actionCounts, totalSteps) ==
    CASE params.explorationStrategy = "ucb" ->
            ucbAction(qTable, state, validActions, actionCounts, totalSteps)
      [] params.explorationStrategy = "undefined" ->
            boltzmannAction(qTable, state, validActions,
                            JsOr(params.temperature, Num(SCALE)))
      [] OTHER -> epsilonGreedyAction(qTable, state, params.epsilon, validActions)

\* the three properties selectAction reads off a params that is the string
\* str: a string has none of them
StringParams(str) == [epsilon |-> Undefined, explorationStrategy |-> "undefined",
                      temperature |-> Undefined]

\* safeUtilCall(fn, fallback, ...args): what fn returns, or the fallback
\* when fn throws
safeUtilCall(outcomes, fallback) ==
    (outcomes \ {Throws}) \cup (IF Throws \in outcomes THEN fallback ELSE {})

\* calculateReward(grid, currentPos, action, nextPos, goalPos, rewardStructure)
calculateReward(grid, currentPos, action, nextPos, goalPos, rewardStructure) ==
    LET nextRow == JsIndex(nextPos, Num(0))
        nextCol == JsIndex(nextPos, Num(1))
    IN  IF ~isValidPosition(nextRow, nextCol, JsLength(grid))
        THEN RewardField(rewardStructure, "OUT_OF_BOUNDS")
        ELSE IF isWall(grid, nextRow, nextCol)
        THEN RewardField(rewardStructure, "WALL")
        ELSE IF JsStrictEq(JsIndex(nextPos, Num(0)), JsIndex(goalPos, Num(0)))
                /\ JsStrictEq(JsIndex(nextPos, Num(1)), JsIndex(goalPos, Num(1)))
        THEN RewardField(rewardStructure, "GOAL")
        ELSE RewardField(rewardStructure, "STEP")

RECURSIVE MaxNextQ(_, _, _, _)
\* the forEach of qLearningUpdate: qValue > maxNextQ replaces the maximum
MaxNextQ(row, validNextActions, i, maxNextQ) ==
    IF i > Len(validNextActions) THEN maxNextQ
    ELSE LET qValue == row.idx[actionToIndex(validNextActions[i]) + 1]
         IN  MaxNextQ(row, validNextActions, i + 1,
                      IF JsGt(qValue, maxNextQ) THEN qValue ELSE maxNextQ)

\* a faulty update rule: the current value is not subtracted from the target
TdUpdateNoError(currentQ, learningRate, reward, discountFactor, nextQ) ==
    JsAdd(currentQ, JsMul(learningRate, JsAdd(reward, JsMul(discountFactor, nextQ))))

\* currentQ + learningRate * (reward + discountFactor * maxNextQ - currentQ)
TdUpdate(currentQ, learningRate, reward, discountFactor, nextQ) ==
    JsAdd(currentQ,
          JsMul(learningRate,
                JsSub(JsAdd(reward, JsMul(discountFactor, nextQ)), currentQ)))

\* qTable[state][actionIndex] = newQ
SetQ(qTable, state, actionIndex, newQ) ==
    [qTable EXCEPT !.rows[state].idx[actionIndex + 1] = newQ]

\* qLearningUpdate: the Q-table after it.  Reading a row of a state that
\* has none throws; the caller (safeUtilCall) then leaves the table as it is.
qLearningUpdate(qTable, state, action, reward, nextState, validNextActions, params) ==
    IF \/ QRow(qTable, nextState).kind = "absent" /\ Len(validNextActions) > 0
       \/ QRow(qTable, state).kind = "absent"
    THEN qTable
    ELSE
    LET actionIndex == actionToIndex(action)
        maxNextQ == IF Len(validNextActions) > 0
                    THEN MaxNextQ(QRow(qTable, nextState), validNextActions, 1, NegInfinity)
                    ELSE Num(0)
        currentQ == QRow(qTable, state).idx[actionIndex + 1]
        newQ == TdUpdate(currentQ, params.learningRate, reward, params.discountFactor, maxNextQ)
    IN  SetQ(qTable, state, actionIndex, newQ)

\* sarsaUpdate: the Q-table after it (a row that is absent throws, as above)
sarsaUpdate(qTable, state, action, reward, nextState, nextAction, params) ==
    IF QRow(qTable, nextState).kind = "absent" \/ QRow(qTable, state).kind = "absent"
    THEN qTable
    ELSE
    LET actionIndex == actionToIndex(action)
        currentQ == QRow(qTable, state).idx[actionIndex + 1]
        nextQ == QRow(qTable, nextState).idx[actionToIndex(nextAction) + 1]
        newQ == TdUpdate(currentQ, params.learningRate, reward, params.discountFactor, nextQ)
    IN  SetQ(qTable, state, actionIndex, newQ)

\* a faulty assignment of the probabilities: every action whose Q-value ties
\* with the best one takes the greedy probability
ExpectedSarsaProbsTies(row, validNextActions, epsilon) ==
    LET n == Len(validNextActions)
        bestNextAction == GreedyScan(row, validNextActions, 1, validNextActions[1], NegInfinity)
        bestNextQ == row.idx[actionToIndex(bestNextAction) + 1]
    IN  [i \in 1..n |-> IF row.idx[actionToIndex(validNextActions[i]) + 1] = bestNextQ
                        THEN n * (SCALE - epsilon.n) + epsilon.n ELSE epsilon.n]

\* the probabilities expectedSarsaUpdate uses, one for each valid next
\* action in order, as exact fractions: the numerators over the denominator
\* Len(validNextActions) * SCALE.  greedyProb = 1 - epsilon + epsilon / n is
\* n * (SCALE - epsilon) + epsilon, randomProb = epsilon / n is epsilon.
\* (The rounding of the floating-point operations is not modelled.)
ExpectedSarsaProbs(row, validNextActions, epsilon) ==
    LET n == Len(validNextActions)
        bestNextAction == GreedyScan(row, validNextActions, 1, validNextActions[1], NegInfinity)
        greedyProb == n * (SCALE - epsilon.n) + epsilon.n
        randomProb == epsilon.n
    IN  [i \in 1..n |-> IF validNextActions[i] = bestNextAction
                        THEN greedyProb ELSE randomProb]

RECURSIVE SumProducts(_, _, _, _)
\* the sum of probs[i] * Q(row, validNextActions[i]) over i..n
SumProducts(probs, row, validNextActions, i) ==
    IF i > Len(validNextActions) THEN 0
    ELSE probs[i] * row.idx[actionToIndex(validNextActions[i]) + 1].n
         + SumProducts(probs, row, validNextActions, i + 1)

\* expectedSarsaUpdate: the Q-table after it.  An epsilon or a Q-value of the
\* next state that is no number makes the expected value NaN.
expectedSarsaUpdate(qTable, state, action, reward, nextState, validNextActions, params) ==
    IF \/ QRow(qTable, nextState).kind = "absent" /\ Len(validNextActions) > 0
       \/ QRow(qTable, state).kind = "absent"
    THEN qTable
    ELSE
    LET actionIndex == actionToIndex(action)
        row == QRow(qTable, nextState)
        n == Len(validNextActions)
        numeric == /\ params.epsilon.k = "num"
                   /\ \A i \in 1..n : row.idx[actionToIndex(validNextActions[i]) + 1].k = "num"
        expectedNextQ ==
            IF n = 0 THEN Num(0)
            ELSE IF ~numeric THEN NaN
            ELSE Num(SumProducts(ExpectedSarsaProbs(row, validNextActions, params.epsilon),
                                 row, validNextActions, 1) \div (n * SCALE))
        currentQ == QRow(qTable, state).idx[actionIndex + 1]
        newQ == TdUpdate(currentQ, params.learningRate, reward, params.discountFactor,
                         expectedNextQ)
    IN  SetQ(qTable, state, actionIndex, newQ)

\* updateQTable(qTable, state, action, reward, nextState, validNextActions,
\* params, nextAction), algorithm being params.algorithm: "undefined" when
\* params has none, and then nothing is updated
updateQTable(qTable, state, action, reward, nextState, validNextActions, params, algorithm, nextAction) ==
    CASE algorithm = "undefined" -> qTable
      [] algorithm = "sarsa" ->
           IF nextAction # "null"
           THEN sarsaUpdate(qTable, state, action, reward, nextState, nextAction, params)
           ELSE qTable
      [] algorithm = "expected-sarsa" ->
           expectedSarsaUpdate(qTable, state, action, reward, nextState, validNextActions,
                               params)
      [] OTHER ->
           qLearningUpdate(qTable, state, action, reward, nextState, validNextActions, params)

(***************************************************************************)
(* The state.  gridWorld, qLearning and training are the React state of    *)
(* the three hooks; trainingRef and performanceRef are the refs; timers is *)
(* the queue of pending setTimeout callbacks (all are armed with the same  *)
(* delay, trainingSpeed, so they fire in the order they were armed).       *)
(* op and halted are history variables: the last operation performed, and  *)
(* whether pauseTraining or stopTraining was called by the user after the  *)
(* last startTraining, resumeTraining or stepOnce.  probe holds the        *)
(* arguments and the result of a utility function called on its own.       *)
(***************************************************************************)
VARIABLES gridWorld, qLearning, training, trainingRef, performanceRef, timers,
          op, halted, probe

vars == <<gridWorld, qLearning, training, trainingRef, performanceRef, timers,
          op, halted, probe>>

\* the live world, and the render a callback created now closes over
World == [gridWorld |-> gridWorld, qLearning |-> qLearning, training |-> training,
          trainingRef |-> trainingRef, performanceRef |-> performanceRef,
          timers |-> timers]

\* of each hook's state, what its callbacks read
Render(W) ==
    [gridWorld |-> [f \in {"gridSize", "grid", "startPos", "goalPos"} |-> W.gridWorld[f]],
     qLearning |-> [f \in {"qTable", "algorithm", "explorationStrategy", "isInitialized",
                           "parameters",
                           "rewardStructure", "totalSteps", "convergenceInfo"} |->
                       W.qLearning[f]],
     training |-> [f \in {"isTraining", "isPaused", "currentEpisode", "maxEpisodes",
                          "episodeReward", "episodeSteps", "isEpisodeComplete", "autoStop",
                          "agentPosition", "episodeTrajectory"} |-> W.training[f]]]

NoTimer == 0

\* the element of a singleton.  The({F(x) : x \in {e}}) is F(e) with e
\* computed once, as const x = e; ... F(x) ... in the code
The(S) == CHOOSE y \in S : TRUE

NoParams == [learningRate |-> Undefined, discountFactor |-> Undefined,
             epsilon |-> Undefined, epsilonDecay |-> Undefined,
             minEpsilon |-> Undefined, temperature |-> Undefined, ucbC |-> Undefined]

(***************************************************************************)
(* useQLearning                                                            *)
(***************************************************************************)
\* 100: a convergence check needs that many updates since the last one
ConvergenceCheckEvery == 100

initializeQLearning(S, W) ==
    IF S.gridWorld.startPos = NoPos \/ S.gridWorld.goalPos = NoPos
    THEN W
    ELSE [W EXCEPT !.qLearning.qTable = initializeQTable(S.gridWorld.gridSize),
                   !.qLearning.isInitialized = TRUE,
                   !.qLearning.totalSteps = 0,
                   !.qLearning.convergenceInfo =
                       [isConverged |-> Bool(FALSE), stableEpisodes |-> 0]]

updateParameters(S, W, newParams) ==
    LET parameters == S.qLearning.parameters
        Clamp(lo, hi, field) ==
            MathMax(Num(lo), MathMin(Num(hi), Nullish(newParams[field], parameters[field])))
    IN  [W EXCEPT !.qLearning.parameters =
            [learningRate |-> Clamp(1, SCALE, "learningRate"),
             discountFactor |-> Clamp(0, SCALE, "discountFactor"),
             epsilon |-> Clamp(0, SCALE, "epsilon"),
             epsilonDecay |-> Clamp(1, SCALE \div 10, "epsilonDecay"),
             minEpsilon |-> Clamp(0, SCALE \div 2, "minEpsilon"),
             temperature |-> MathMax(Num(SCALE \div 10),
                                Nullish(Nullish(newParams.temperature, parameters.temperature),
                                        Num(SCALE))),
             ucbC |-> MathMax(Num(SCALE \div 10),
                         Nullish(Nullish(newParams.ucbC, parameters.ucbC), Num(2 * SCALE)))]]

\* executeStep(currentState, action); action "undefined" is a missing action
executeStep(S, currentState, action) ==
    IF action \in {"undefined", "null"}
    THEN [nextState |-> currentState, nextPosition |-> <<0, 0>>, reward |-> Num(0),
          isDone |-> FALSE, collision |-> TRUE]
    ELSE
    LET gw == S.gridWorld
        currentPos == stateToPosition(currentState, gw.gridSize)
        nextPos == getNextPosition(JsPos(currentPos), action)
        grid == JsGrid(gw.grid, gw.gridSize)
        \* isValidPosition(nextPos, gridSize): two arguments for row, col, gridSize
        isValidMove == /\ isValidPosition(nextPos, Num(gw.gridSize), Undefined)
                       /\ ~isWall(grid, JsIndex(nextPos, Num(0)), JsIndex(nextPos, Num(1)))
        nextPosition == IF isValidMove THEN FromJsPos(nextPos) ELSE currentPos
        \* calculateReward(currentPos, nextPosition, goalPos, grid, rewardStructure, collision)
        reward == calculateReward(JsPos(currentPos), JsPos(nextPosition), JsPos(gw.goalPos),
                                  grid, S.qLearning.rewardStructure, Bool(~isValidMove))
    IN  [nextState |-> positionToState(nextPosition, gw.gridSize),
         nextPosition |-> nextPosition,
         reward |-> reward,
         isDone |-> positionsEqual(nextPosition, gw.goalPos),
         collision |-> ~isValidMove]

\* performUpdate.  Its switch on the algorithm calls updateQTable with
\* algorithm "q-learning" for q-learning and "expected-sarsa" for sarsa, both
\* with all four actions as the valid next actions and no next action; for
\* expected-sarsa it passes parameters.discountFactor, a number, where
\* updateQTable expects params, so that call finds no algorithm.
performUpdate(S, W, state, action, reward, nextState, isDone) ==
    IF action \in {"undefined", "null"}
    THEN W
    ELSE
    LET prevQTable == W.qLearning.qTable
        \* { ...prevQTable }: a plain object, the same rows
        spread == [prevQTable EXCEPT !.isArray = FALSE]
        newQTable == IF QRow(spread, state).kind = "absent"
                     THEN [spread EXCEPT !.rows =
                             [st \in (DOMAIN spread.rows) \cup {state} |->
                                 IF st = state THEN NamedRow ELSE spread.rows[st]]]
                     ELSE spread
        algorithm == S.qLearning.algorithm
        updated == IF algorithm \notin {"q-learning", "sarsa", "expected-sarsa"}
                   THEN newQTable
                   ELSE updateQTable(newQTable, state, action, JsOr(reward, Num(0)),
                                     nextState, ACTION_VALUES, S.qLearning.parameters,
                                     CASE algorithm = "q-learning" -> "q-learning"
                                       [] algorithm = "sarsa" -> "expected-sarsa"
                                       [] algorithm = "expected-sarsa" -> "undefined",
                                     "null")
    IN  [W EXCEPT !.qLearning.qTable = updated,
                  !.qLearning.totalSteps = @ + 1,
                  !.performanceRef.updateCount = @ + 1]

\* the state argument null (or undefined)
NullState == -1

\* selectActionForState with the first valid action returned for a state
\* without a row
selectActionForStateFirst(S, state, validActions) ==
    IF state = NullState
    THEN {IF Len(validActions) = 0 THEN "up" ELSE validActions[1]}
    ELSE IF QRow(S.qLearning.qTable, state).kind = "absent"
    THEN IF Len(validActions) = 0 THEN {"undefined"} ELSE {validActions[1]}
    ELSE safeUtilCall(selectAction(S.qLearning.qTable, state, validActions,
                                   StringParams(S.qLearning.explorationStrategy),
                                   ObjCounts, 0),
                      IF Len(validActions) = 0 THEN {"undefined"}
                      ELSE {validActions[i] : i \in 1..Len(validActions)})

\* the set of values selectActionForState may return
selectActionForState(S, state, validActions) ==
    IF state = NullState
    THEN \* validActions[0] || ACTIONS.UP
         {IF Len(validActions) = 0 THEN "up" ELSE validActions[1]}
    ELSE IF QRow(S.qLearning.qTable, state).kind = "absent"
    THEN \* validActions[Math.floor(Math.random() * validActions.length)]
          IF Len(validActions) = 0 THEN {"undefined"}
         ELSE {validActions[i] : i \in 1..Len(validActions)}
    ELSE \* selectAction(qTable, state, validActions, explorationStrategy, {...}):
         \* its params is the strategy name, a string, whose epsilon,
         \* explorationStrategy and temperature are undefined, and its
         \* actionCounts the object { epsilon, temperature, c }
         safeUtilCall(selectAction(S.qLearning.qTable, state, validActions,
                                   StringParams(S.qLearning.explorationStrategy),
                                   ObjCounts, 0),
                      IF Len(validActions) = 0 THEN {"undefined"}
                      ELSE {validActions[i] : i \in 1..Len(validActions)})

\* the value of a call that throws
Thrown == [k |-> "throws", n |-> 0, s |-> "TypeError", a |-> <<>>]

\* checkConvergence(oldQTable, newQTable, threshold) as checkForConvergence
\* calls it, newQTable a number: over an array with rows it reads
\* newQTable[state][action] of a number and throws; over a plain object,
\* which has no length, its loop is empty and it returns 0 < threshold
checkConvergence(oldQTable, newQTable, threshold) ==
    IF oldQTable.isArray /\ DOMAIN oldQTable.rows # {}
    THEN Thrown
    ELSE Bool(JsLt(Num(0), threshold))

\* checkForConvergence: checkConvergence(qTable, CONVERGENCE_THRESHOLD,
\* CONVERGENCE_WINDOW) through safeUtilCall, whose fallback is
\* { isConverged: false }; the spread of the boolean a call returns has no
\* isConverged in it, and stableEpisodes is then 0
checkForConvergence(S, W) ==
    IF W.performanceRef.updateCount - W.performanceRef.lastConvergenceCheck < ConvergenceCheckEvery
    THEN W
    ELSE LET result == checkConvergence(S.qLearning.qTable, Num(1), Num(10 * SCALE))
             isConverged == IF result = Thrown THEN Bool(FALSE) ELSE Undefined
         IN  [W EXCEPT !.qLearning.convergenceInfo =
                           [isConverged |-> isConverged,
                            stableEpisodes |-> IF Truthy(isConverged)
                                               THEN W.qLearning.convergenceInfo.stableEpisodes + 1
                                               ELSE 0],
                       !.performanceRef.lastConvergenceCheck = W.performanceRef.updateCount]

\* the two effects of the hook, run after a render S
QLearningEffects(S, W) ==
    LET W1 == IF S.gridWorld.startPos # NoPos /\ S.gridWorld.goalPos # NoPos
                 /\ ~S.qLearning.isInitialized
              THEN initializeQLearning(S, W) ELSE W
    IN  IF S.qLearning.isInitialized /\ S.qLearning.totalSteps > 0
        THEN checkForConvergence(S, W1) ELSE W1

\* rendering until the effects change nothing more
Effects(W) ==
    LET Again(W1) == QLearningEffects(Render(W1), W1)
    IN  The({Again(W1) : W1 \in {QLearningEffects(Render(W), W)}})

importConfigurationKeepStrategy(W, config) ==
    [W EXCEPT !.qLearning.qTable = config.qTable,
              !.qLearning.parameters = config.parameters,
              !.qLearning.algorithm = config.algorithm,
              !.qLearning.rewardStructure = REWARDS_DEFAULT,
              !.qLearning.isInitialized = DOMAIN config.qTable.rows # {}]

\* importConfiguration(config), config holding a Q-table with rows, the
\* parameters, the algorithm, the exploration strategy and, if it is an
\* exported one, the reward structure; each field is config.x || default
importConfiguration(W, config) ==
    [W EXCEPT !.qLearning.qTable = config.qTable,
              !.qLearning.parameters = config.parameters,
              !.qLearning.algorithm =
                  IF config.algorithm \in {"undefined", ""} THEN "q-learning"
                  ELSE config.algorithm,
              !.qLearning.explorationStrategy =
                  IF config.explorationStrategy \in {"undefined", ""} THEN "epsilon-greedy"
                  ELSE config.explorationStrategy,
              !.qLearning.rewardStructure =
                  IF "rewardStructure" \in DOMAIN config
                  THEN JsOr(config.rewardStructure, REWARDS_DEFAULT)
                  ELSE REWARDS_DEFAULT,
              !.qLearning.isInitialized = DOMAIN config.qTable.rows # {}]

\* exportConfiguration(), of the record returned what importConfiguration reads
exportConfiguration(S) ==
    [qTable |-> S.qLearning.qTable,
     parameters |-> S.qLearning.parameters,
     algorithm |-> S.qLearning.algorithm,
     explorationStrategy |-> S.qLearning.explorationStrategy,
     rewardStructure |-> S.qLearning.rewardStructure]

\* the setAlgorithm and setExplorationStrategy the hook returns
setAlgorithm(W, alg) ==
    IF alg \in {"q-learning", "sarsa", "expected-sarsa"}
    THEN [W EXCEPT !.qLearning.algorithm = alg] ELSE W

setExplorationStrategy(W, strategy) ==
    IF strategy \in {"epsilon-greedy", "ucb", "boltzman"}
    THEN [W EXCEPT !.qLearning.explorationStrategy = strategy] ELSE W

\* setRewardStructure, the state setter itself
setRewardStructure(W, rewards) == [W EXCEPT !.qLearning.rewardStructure = rewards]

\* reset()
reset(W) ==
    [W EXCEPT !.qLearning.qTable = EmptyQTable,
              !.qLearning.isInitialized = FALSE,
              !.qLearning.totalSteps = 0,
              !.qLearning.convergenceInfo = [isConverged |-> Bool(FALSE), stableEpisodes |-> 0],
              !.performanceRef = [updateCount |-> 0, lastConvergenceCheck |-> 0]]

(***************************************************************************)
(* useTraining                                                             *)
(***************************************************************************)
\* the trajectory entry of the start position
SeedEntry(startPos) ==
    [position |-> startPos, action |-> "null", reward |-> Num(0), collision |-> Undefined]

\* clearTimeout(id): the queue without the timer of that id
clearTimeout(queue, id) == SelectSeq(queue, LAMBDA t : t.id # id)

\* the id setTimeout returns: one that no pending timer has and intervalId
\* does not hold
NewTimerId(W) ==
    CHOOSE i \in 1..(Len(W.timers) + 2) :
        /\ i # W.trainingRef.intervalId
        /\ \A j \in 1..Len(W.timers) : W.timers[j].id # i
        /\ \A k \in 1..(i - 1) :
              k = W.trainingRef.intervalId \/ \E j \in 1..Len(W.timers) : W.timers[j].id = k

\* setTimeout(fn, trainingSpeed), fn a callback created in render S
setTimeout(W, fn, S) == Append(W.timers, [id |-> NewTimerId(W), fn |-> fn, render |-> S])

\* initializeTraining without the test of the start and goal positions
initializeTrainingUnchecked(S, W) ==
    IF ~S.qLearning.isInitialized
    THEN <<FALSE, W>>
    ELSE <<TRUE,
           [W EXCEPT !.training.currentEpisode = 0,
                     !.training.currentStep = 0,
                     !.training.episodeReward = Num(0),
                     !.training.episodeSteps = 0,
                     !.training.isEpisodeComplete = FALSE,
                     !.training.agentPosition = S.gridWorld.startPos,
                     !.training.episodeTrajectory = <<SeedEntry(S.gridWorld.startPos)>>,
                     !.training.episodeHistory = <<>>,
                     !.training.rewardHistory = <<>>,
                     !.training.stepsHistory = <<>>,
                     !.training.explorationHistory = <<>>]>>

\* initializeTraining: <<whether it succeeded, the world after it>>
initializeTraining(S, W) ==
    IF S.gridWorld.startPos = NoPos \/ S.gridWorld.goalPos = NoPos \/ ~S.qLearning.isInitialized
    THEN <<FALSE, W>>
    ELSE <<TRUE,
           [W EXCEPT !.training.currentEpisode = 0,
                     !.training.currentStep = 0,
                     !.training.episodeReward = Num(0),
                     !.training.episodeSteps = 0,
                     !.training.isEpisodeComplete = FALSE,
                     !.training.agentPosition = S.gridWorld.startPos,
                     !.training.episodeTrajectory = <<SeedEntry(S.gridWorld.startPos)>>,
                     !.training.episodeHistory = <<>>,
                     !.training.rewardHistory = <<>>,
                     !.training.stepsHistory = <<>>,
                     !.training.explorationHistory = <<>>]>>

stopTraining(W) ==
    [W EXCEPT !.training.isTraining = FALSE,
              !.training.isPaused = FALSE,
              !.timers = IF W.trainingRef.intervalId # NoTimer
                         THEN clearTimeout(W.timers, W.trainingRef.intervalId) ELSE @,
              !.trainingRef.intervalId = NoTimer]

pauseTraining(W) ==
    [W EXCEPT !.training.isPaused = TRUE,
              !.timers = IF W.trainingRef.intervalId # NoTimer
                         THEN clearTimeout(W.timers, W.trainingRef.intervalId) ELSE @,
              !.trainingRef.intervalId = NoTimer]

startNewEpisodeClearing(S, W) ==
    IF S.gridWorld.startPos = NoPos
    THEN W
    ELSE [W EXCEPT !.training.episodeReward = Num(0),
                   !.training.episodeSteps = 0,
                   !.training.isEpisodeComplete = FALSE,
                   !.training.agentPosition = S.gridWorld.startPos,
                   !.training.episodeTrajectory = <<SeedEntry(S.gridWorld.startPos)>>,
                   !.training.episodeHistory = <<>>,
                   !.training.lastAction = "null",
                   !.training.lastReward = Num(0)]

\* startNewEpisode(): the episode state is reset, the histories are kept
startNewEpisode(S, W) ==
    IF S.gridWorld.startPos = NoPos
    THEN W
    ELSE [W EXCEPT !.training.episodeReward = Num(0),
                   !.training.episodeSteps = 0,
                   !.training.isEpisodeComplete = FALSE,
                   !.training.agentPosition = S.gridWorld.startPos,
                   !.training.episodeTrajectory = <<SeedEntry(S.gridWorld.startPos)>>,
                   !.training.lastAction = "null",
                   !.training.lastReward = Num(0)]


completeEpisode(S, W, success, finalReward) ==
    LET tr == S.training
        parameters == S.qLearning.parameters
        \* the histories take the episode's record
        Record(episodeData) ==
            [W EXCEPT !.training.episodeHistory = Append(@, episodeData),
                      !.training.rewardHistory = Append(@, episodeData.reward),
                      !.training.stepsHistory = Append(@, episodeData.steps),
                      !.training.explorationHistory = Append(@, episodeData.epsilon)]
        newEpsilon == MathMax(parameters.minEpsilon,
                              JsMul(parameters.epsilon,
                                    JsSub(Num(SCALE), parameters.epsilonDecay)))
        \* epsilon decays
        Decay(W1) ==
            IF tr.currentEpisode - W.trainingRef.lastEpsilonUpdate >= EpsilonUpdateEvery
            THEN [updateParameters(S, W1, [NoParams EXCEPT !.epsilon = newEpsilon])
                     EXCEPT !.trainingRef.lastEpsilonUpdate = tr.currentEpisode]
            ELSE W1
        shouldContinue ==
            /\ tr.currentEpisode + 1 < tr.maxEpisodes
            /\ (~tr.autoStop \/ ~Truthy(S.qLearning.convergenceInfo.isConverged))
        \* the next episode is scheduled, or training stops
        Schedule(W3) ==
            IF shouldContinue /\ tr.isTraining /\ ~tr.isPaused
            THEN [W3 EXCEPT !.timers = setTimeout(W3, "startNewEpisode", S)]
            ELSE stopTraining(W3)
        Count(W2) == [W2 EXCEPT !.training.currentEpisode = @ + 1,
                                !.training.isEpisodeComplete = TRUE]
    IN  The({Schedule(W3) :
                W3 \in {Count(W2) :
                    W2 \in {Decay(W1) :
                        W1 \in {Record(episodeData) :
                            episodeData \in {[episode |-> tr.currentEpisode + 1,
                                              steps |-> tr.episodeSteps,
                                              reward |-> JsAdd(tr.episodeReward, finalReward),
                                              success |-> success,
                                              epsilon |-> parameters.epsilon,
                                              trajectory |-> tr.episodeTrajectory]}}}}})

\* the actions selectActionForState may hand to a step taken in render S
StepChoices(S) ==
    IF S.training.agentPosition = NoPos \/ S.training.isEpisodeComplete
    THEN {"up"}
    ELSE LET gw == S.gridWorld
         IN  selectActionForState(S,
                 positionToState(S.training.agentPosition, gw.gridSize),
                 \* getValidActions(agentPosition, gridWorld.grid): the position
                 \* for its grid, the grid for its position
                 getValidActions(JsPos(S.training.agentPosition), JsGrid(gw.grid, gw.gridSize)))

\* executeTrainingStep, selectedAction the action selectActionForState
\* returned: <<whether the episode completed, the world after it>>
executeTrainingStep(S, W, selectedAction) ==
    IF S.training.agentPosition = NoPos \/ S.training.isEpisodeComplete
    THEN <<FALSE, W>>
    ELSE
    LET currentState == positionToState(S.training.agentPosition, S.gridWorld.gridSize)
        \* the episode state takes the step's result
        Update(r, W1) ==
            [W1 EXCEPT !.training.agentPosition = r.nextPosition,
                       !.training.lastAction = selectedAction,
                       !.training.lastReward = r.reward,
                       !.training.episodeReward = JsAdd(@, r.reward),
                       !.training.episodeSteps = @ + 1,
                       !.training.currentStep = @ + 1,
                       !.training.episodeTrajectory =
                           Append(@, [position |-> r.nextPosition,
                                      action |-> selectedAction,
                                      reward |-> r.reward,
                                      collision |-> Bool(r.collision)])]
        Finish(r, W2) ==
            IF r.isDone \/ S.training.episodeSteps >= MAX_STEPS_PER_EPISODE
            THEN <<TRUE, completeEpisode(S, W2, r.isDone, r.reward)>>
            ELSE <<FALSE, W2>>
        Apply(r) ==
            The({Finish(r, W2) :
                    W2 \in {Update(r, W1) :
                        W1 \in {performUpdate(S, W, currentState, selectedAction,
                                              r.reward, r.nextState, r.isDone)}}})
    IN  The({Apply(r) : r \in {executeStep(S, currentState, selectedAction)}})

\* runTrainingLoop of startTraining and of resumeTraining, created in render S
runTrainingLoop(S, W, selectedAction) ==
    IF ~S.training.isTraining \/ S.training.isPaused
    THEN W
    ELSE LET Arm(episodeCompleted, W1) ==
                 IF ~episodeCompleted /\ S.training.isTraining /\ ~S.training.isPaused
                 THEN [W1 EXCEPT !.trainingRef.intervalId = NewTimerId(W1),
                                 !.timers = setTimeout(W1, "runTrainingLoop", S)]
                 ELSE W1
             Loop(res) == Arm(res[1], res[2])
         IN  The({Loop(res) : res \in {executeTrainingStep(S, W, selectedAction)}})

\* startTraining: <<what it returns, the world after it>>
startTraining(S, W, selectedAction) ==
    IF ~S.qLearning.isInitialized
    THEN <<FALSE, W>>
    ELSE LET Run(init) ==
                 IF ~init[1]
                 THEN <<FALSE, W>>
                 ELSE <<TRUE,
                        runTrainingLoop(S,
                            [init[2] EXCEPT !.training.isTraining = TRUE,
                                            !.training.isPaused = FALSE],
                            selectedAction)>>
         IN  The({Run(init) : init \in {IF ~S.training.isTraining
                                        THEN initializeTraining(S, W) ELSE <<TRUE, W>>}})

resumeTraining(S, W, selectedAction) ==
    IF ~S.training.isTraining
    THEN W
    ELSE runTrainingLoop(S, [W EXCEPT !.training.isPaused = FALSE], selectedAction)

resetTraining(S, W) == reset(initializeTraining(S, stopTraining(W))[2])

\* stepOnce: <<what it returns, the world after it>>
stepOnce(S, W, selectedAction) ==
    IF S.training.isTraining
    THEN <<FALSE, W>>
    ELSE IF S.training.isEpisodeComplete \/ S.training.agentPosition = NoPos
    THEN <<TRUE, startNewEpisode(S, W)>>
    ELSE executeTrainingStep(S, W, selectedAction)

(***************************************************************************)
(* useGridWorld                                                            *)
(***************************************************************************)
moveAgent(S, W, newPos) ==
    LET row == Num(newPos[1])
        col == Num(newPos[2])
        gw == S.gridWorld
    IN  IF /\ isValidPosition(row, col, Num(gw.gridSize))
           /\ ~isWall(JsGrid(gw.grid, gw.gridSize), row, col)
        THEN [W EXCEPT !.gridWorld.agentPos = newPos]
        ELSE W

\* toggleCell(row, col); the undo history it saves to is not part of the
\* state.  positionsEqual reads [0] of the start and the goal, and throws
\* when one is missing.
toggleCell(S, W, row, col) ==
    LET gw == S.gridWorld
    IN  IF ~isValidPosition(Num(row), Num(col), Num(gw.gridSize))
        THEN W
        ELSE IF gw.startPos = NoPos \/ gw.goalPos = NoPos
        THEN W
        ELSE IF positionsEqual(<<row, col>>, gw.startPos)
                \/ positionsEqual(<<row, col>>, gw.goalPos)
        THEN W
        ELSE [W EXCEPT !.gridWorld.grid =
                  IF <<row, col>> \in @ THEN @ \ {<<row, col>>} ELSE @ \cup {<<row, col>>}]

\* setCellType(row, col, cellType), cellType "wall" or "empty"
setCellType(S, W, row, col, cellType) ==
    IF ~isValidPosition(Num(row), Num(col), Num(S.gridWorld.gridSize))
    THEN W
    ELSE [W EXCEPT !.gridWorld.grid =
              IF cellType = "wall" THEN @ \cup {<<row, col>>} ELSE @ \ {<<row, col>>}]

\* updateStartPos(newPos): the agent is put on the new start
updateStartPos(S, W, newPos) ==
    LET row == Num(newPos[1])
        col == Num(newPos[2])
        gw == S.gridWorld
    IN  IF /\ isValidPosition(row, col, Num(gw.gridSize))
           /\ ~isWall(JsGrid(gw.grid, gw.gridSize), row, col)
           /\ ~positionsEqual(newPos, gw.goalPos)
        THEN [W EXCEPT !.gridWorld.startPos = newPos, !.gridWorld.agentPos = newPos]
        ELSE W

\* updateGoalPos(newPos)
updateGoalPos(S, W, newPos) ==
    LET row == Num(newPos[1])
        col == Num(newPos[2])
        gw == S.gridWorld
    IN  IF /\ isValidPosition(row, col, Num(gw.gridSize))
           /\ ~isWall(JsGrid(gw.grid, gw.gridSize), row, col)
           /\ ~positionsEqual(newPos, gw.startPos)
        THEN [W EXCEPT !.gridWorld.goalPos = newPos]
        ELSE W

(***************************************************************************)
(* The hooks composed: useTraining(gridWorld, useQLearning(gridWorld)),    *)
(* the argument useQLearning is written for.                               *)
(***************************************************************************)
\* useGridWorld's state after construction: the empty preset
InitGridWorld ==
    [gridSize |-> GridSize, grid |-> {}, startPos |-> <<0, 0>>,
     goalPos |-> <<GridSize - 1, GridSize - 1>>, agentPos |-> <<0, 0>>]

\* useQLearning's state after construction
InitQLearning ==
    [qTable |-> EmptyQTable, algorithm |-> "q-learning",
     explorationStrategy |-> "epsilon-greedy", isInitialized |-> FALSE,
     parameters |-> NoParams,
     rewardStructure |-> REWARDS_DEFAULT, totalSteps |-> 0,
     convergenceInfo |-> [isConverged |-> Bool(FALSE), stableEpisodes |-> 0]]

\* useTraining's state after construction
InitTraining ==
    [isTraining |-> FALSE, isPaused |-> FALSE, currentEpisode |-> 0, currentStep |-> 0,
     maxEpisodes |-> MAX_EPISODES, episodeReward |-> Num(0), episodeSteps |-> 0,
     isEpisodeComplete |-> FALSE, autoStop |-> TRUE,
     episodeHistory |-> <<>>, rewardHistory |-> <<>>, stepsHistory |-> <<>>,
     explorationHistory |-> <<>>, agentPosition |-> NoPos, episodeTrajectory |-> <<>>,
     lastAction |-> "null", lastReward |-> Num(0)]

\* the world after construction and the effects of the first renders
InitWorld ==
    Effects([gridWorld |-> InitGridWorld, qLearning |-> InitQLearning,
             training |-> InitTraining,
             trainingRef |-> [intervalId |-> NoTimer, lastEpsilonUpdate |-> 0],
             performanceRef |-> [updateCount |-> 0, lastConvergenceCheck |-> 0],
             timers |-> <<>>])

NoProbe == [fn |-> "none"]

Init ==
    /\ gridWorld = InitWorld.gridWorld
    /\ qLearning = InitWorld.qLearning
    /\ training = InitWorld.training
    /\ trainingRef = InitWorld.trainingRef
    /\ performanceRef = InitWorld.performanceRef
    /\ timers = InitWorld.timers
    /\ op = [name |-> "init", ret |-> TRUE]
    /\ halted = FALSE
    /\ probe = NoProbe

\* the caps of the model
InBounds(W) ==
    /\ W.training.currentStep <= MaxTotalSteps
    /\ W.qLearning.totalSteps <= MaxTotalSteps
    /\ W.performanceRef.updateCount <= MaxTotalSteps
    /\ W.training.currentEpisode <= MaxCompleted
    /\ Len(W.timers) <= MaxTimers

\* the handler has returned world W: the effects run, the state is W
Commit(W, name, ret, h) ==
    \E E \in {Effects(W)} :
        /\ InBounds(E)
        /\ gridWorld' = E.gridWorld
        /\ qLearning' = E.qLearning
        /\ training' = E.training
        /\ trainingRef' = E.trainingRef
        /\ performanceRef' = E.performanceRef
        /\ timers' = E.timers
        /\ op' = [name |-> name, ret |-> ret]
        /\ halted' = h
        /\ UNCHANGED probe

StartTraining ==
    \E a \in StepChoices(Render(World)) :
        \E res \in {startTraining(Render(World), World, a)} :
            Commit(res[2], "startTraining", res[1], FALSE)

PauseTraining ==
    \E W \in {pauseTraining(World)} : Commit(W, "pauseTraining", TRUE, TRUE)

ResumeTraining ==
    \E a \in StepChoices(Render(World)) :
        \E W \in {resumeTraining(Render(World), World, a)} :
            Commit(W, "resumeTraining", TRUE, FALSE)

StopTraining ==
    \E W \in {stopTraining(World)} : Commit(W, "stopTraining", TRUE, TRUE)

ResetTraining ==
    \E W \in {resetTraining(Render(World), World)} :
        Commit(W, "resetTraining", TRUE, halted)

StepOnce ==
    \E a \in StepChoices(Render(World)) :
        \E res \in {stepOnce(Render(World), World, a)} :
            Commit(res[2], "stepOnce", res[1], FALSE)

\* the oldest pending timer is a tick of the training loop: it fires
TickLoop ==
    /\ timers # <<>>
    /\ Head(timers).fn = "runTrainingLoop"
    /\ \E a \in StepChoices(Head(timers).render) :
          \E W \in {runTrainingLoop(Head(timers).render,
                                    [World EXCEPT !.timers = Tail(timers)], a)} :
              Commit(W, "runTrainingLoop", TRUE, halted)

\* the oldest pending timer is completeEpisode's: it fires
TickNewEpisode ==
    /\ timers # <<>>
    /\ Head(timers).fn = "startNewEpisode"
    /\ \E W \in {startNewEpisode(Head(timers).render,
                                  [World EXCEPT !.timers = Tail(timers)])} :
          Commit(W, "startNewEpisode", TRUE, halted)

\* the parameter objects the user submits
ParamChoices ==
    { [NoParams EXCEPT !.learningRate = Num(SCALE \div 10),
                       !.discountFactor = Num((9 * SCALE) \div 10),
                       !.epsilon = Num(SCALE \div 10),
                       !.epsilonDecay = Num(SCALE \div 10),
                       !.minEpsilon = Num(SCALE \div 100)] }

UpdateParameters ==
    \E newParams \in ParamChoices :
        \E W \in {updateParameters(Render(World), World, newParams)} :
            Commit(W, "updateParameters", TRUE, halted)

\* the positions moveAgent is called with: a free cell, a cell of column 0,
\* and one off the grid
MoveChoices == {<<1, 1>>, <<1, 0>>, <<0, GridSize>>}

MoveAgent ==
    \E newPos \in MoveChoices :
        \E W \in {moveAgent(Render(World), World, newPos)} :
            Commit(W, "moveAgent", TRUE, halted)

Next ==
    \/ StartTraining
    \/ PauseTraining
    \/ ResumeTraining
    \/ StopTraining
    \/ StepOnce
    \/ TickLoop
    \/ TickNewEpisode
    \/ UpdateParameters
    \/ MoveAgent

Spec == Init /\ [][Next]_vars

\* resetTraining opens a new session; it is explored with the scheduler alone
NextReset ==
    \/ StartTraining
    \/ StopTraining
    \/ StepOnce
    \/ TickLoop
    \/ TickNewEpisode
    \/ ResetTraining

SpecReset == Init /\ [][NextReset]_vars

\* the scheduler's operations; a pending timer fires
NextRun ==
    \/ StartTraining
    \/ PauseTraining
    \/ ResumeTraining
    \/ StopTraining
    \/ StepOnce
    \/ TickLoop
    \/ TickNewEpisode

FairSpec == Init /\ [][NextRun]_vars /\ WF_vars(TickLoop) /\ WF_vars(TickNewEpisode)

(***************************************************************************)
(* executeStep on its own: a grid, a position and an action are drawn, and *)
(* the function is applied to them.                                        *)
(***************************************************************************)
\* the cells that may be walls (neither the start nor the goal)
WallCells == {<<0, 1>>, <<1, 1>>, <<1, 2>>}

InitStep ==
    /\ \E walls \in SUBSET WallCells :
          /\ gridWorld = [InitWorld.gridWorld EXCEPT !.grid = walls]
          /\ \E pos \in Cells(GridSize) \ walls : \E action \in ActionSet :
                probe = [fn |-> "input", pos |-> pos, action |-> action]
    /\ qLearning = InitWorld.qLearning
    /\ training = InitWorld.training
    /\ trainingRef = InitWorld.trainingRef
    /\ performanceRef = InitWorld.performanceRef
    /\ timers = InitWorld.timers
    /\ op = [name |-> "init", ret |-> TRUE]
    /\ halted = FALSE

ApplyExecuteStep ==
    /\ probe.fn = "input"
    /\ probe' = [fn |-> "executeStep", pos |-> probe.pos, action |-> probe.action,
                 result |-> executeStep(Render(World),
                                        positionToState(probe.pos, gridWorld.gridSize),
                                        probe.action)]
    /\ UNCHANGED <<gridWorld, qLearning, training, trainingRef, performanceRef, timers,
                   op, halted>>

NextStep == ApplyExecuteStep

SpecStep == InitStep /\ [][NextStep]_vars

(***************************************************************************)
(* Training with the exploration rate set by the user: the epsilon slider  *)
(* goes down to RL_PARAMS.EPSILON.MIN, 0                                   *)
(***************************************************************************)
EpsilonChoices == { [NoParams EXCEPT !.epsilon = Num(0)] }

SetEpsilon ==
    \E newParams \in EpsilonChoices :
        \E W \in {updateParameters(Render(World), World, newParams)} :
            Commit(W, "updateParameters", TRUE, halted)

NextDecay ==
    \/ StartTraining
    \/ StopTraining
    \/ StepOnce
    \/ TickLoop
    \/ TickNewEpisode
    \/ UpdateParameters
    \/ SetEpsilon

SpecDecay == Init /\ [][NextDecay]_vars

(***************************************************************************)
(* positionToState and stateToPosition on their own: a grid size and a     *)
(* position, or a state index, are drawn and converted there and back.     *)
(***************************************************************************)
\* the largest grid side drawn
MaxSide == 5

InitCodec ==
    /\ \E size \in 1..MaxSide :
          \/ \E pos \in Cells(size) :
                probe = [fn |-> "input", size |-> size, from |-> "position", pos |-> pos]
          \/ \E state \in States(size) :
                probe = [fn |-> "input", size |-> size, from |-> "state", state |-> state]
    /\ gridWorld = InitWorld.gridWorld
    /\ qLearning = InitWorld.qLearning
    /\ training = InitWorld.training
    /\ trainingRef = InitWorld.trainingRef
    /\ performanceRef = InitWorld.performanceRef
    /\ timers = InitWorld.timers
    /\ op = [name |-> "init", ret |-> TRUE]
    /\ halted = FALSE

\* stateToPosition(positionToState(pos, size), size)
ApplyPositionRoundTrip ==
    /\ probe.fn = "input" /\ probe.from = "position"
    /\ probe' = [fn |-> "positionRoundTrip", size |-> probe.size, pos |-> probe.pos,
                 state |-> positionToState(probe.pos, probe.size),
                 back |-> stateToPosition(positionToState(probe.pos, probe.size), probe.size)]
    /\ UNCHANGED <<gridWorld, qLearning, training, trainingRef, performanceRef, timers,
                   op, halted>>

\* positionToState(stateToPosition(state, size), size)
ApplyStateRoundTrip ==
    /\ probe.fn = "input" /\ probe.from = "state"
    /\ probe' = [fn |-> "stateRoundTrip", size |-> probe.size, state |-> probe.state,
                 pos |-> stateToPosition(probe.state, probe.size),
                 back |-> positionToState(stateToPosition(probe.state, probe.size), probe.size)]
    /\ UNCHANGED <<gridWorld, qLearning, training, trainingRef, performanceRef, timers,
                   op, halted>>

NextCodec ==
    \/ ApplyPositionRoundTrip
    \/ ApplyStateRoundTrip

SpecCodec == InitCodec /\ [][NextCodec]_vars

(***************************************************************************)
(* getValidActions on its own: a grid and a free position are drawn, and   *)
(* the function is applied to them.                                        *)
(***************************************************************************)
InitValidActions ==
    /\ \E walls \in SUBSET WallCells :
          /\ gridWorld = [InitWorld.gridWorld EXCEPT !.grid = walls]
          /\ \E pos \in Cells(GridSize) \ walls :
                probe = [fn |-> "input", pos |-> pos]
    /\ qLearning = InitWorld.qLearning
    /\ training = InitWorld.training
    /\ trainingRef = InitWorld.trainingRef
    /\ performanceRef = InitWorld.performanceRef
    /\ timers = InitWorld.timers
    /\ op = [name |-> "init", ret |-> TRUE]
    /\ halted = FALSE

ApplyGetValidActions ==
    /\ probe.fn = "input"
    /\ probe' = [fn |-> "getValidActions", pos |-> probe.pos,
                 result |-> getValidActions(JsGrid(gridWorld.grid, gridWorld.gridSize),
                                            JsPos(probe.pos))]
    /\ UNCHANGED <<gridWorld, qLearning, training, trainingRef, performanceRef, timers,
                   op, halted>>

NextValidActions == ApplyGetValidActions

SpecValidActions == InitValidActions /\ [][NextValidActions]_vars

(***************************************************************************)
(* calculateReward on its own, called with the arguments of its            *)
(* parameters: a grid, a free position, an action and a reward preset are  *)
(* drawn; nextPos is the cell the action leads to.                         *)
(***************************************************************************)
RewardPresets == {REWARDS_DEFAULT, REWARDS_SPARSE, REWARDS_DENSE}

InitReward ==
    /\ \E walls \in SUBSET WallCells :
          /\ gridWorld = [InitWorld.gridWorld EXCEPT !.grid = walls]
          /\ \E pos \in Cells(GridSize) \ walls : \E action \in ActionSet :
                probe = [fn |-> "input", pos |-> pos, action |-> action]
    /\ \E preset \in RewardPresets :
          qLearning = [InitWorld.qLearning EXCEPT !.rewardStructure = preset]
    /\ training = InitWorld.training
    /\ trainingRef = InitWorld.trainingRef
    /\ performanceRef = InitWorld.performanceRef
    /\ timers = InitWorld.timers
    /\ op = [name |-> "init", ret |-> TRUE]
    /\ halted = FALSE

ApplyCalculateReward ==
    /\ probe.fn = "input"
    /\ probe' = [fn |-> "calculateReward", pos |-> probe.pos, action |-> probe.action,
                 result |-> calculateReward(JsGrid(gridWorld.grid, gridWorld.gridSize),
                                            JsPos(probe.pos), probe.action,
                                            getNextPosition(JsPos(probe.pos), probe.action),
                                            JsPos(gridWorld.goalPos),
                                            qLearning.rewardStructure)]
    /\ UNCHANGED <<gridWorld, qLearning, training, trainingRef, performanceRef, timers,
                   op, halted>>

NextReward == ApplyCalculateReward

SpecReward == InitReward /\ [][NextReward]_vars

(***************************************************************************)
(* qLearningUpdate on its own: the Q-table initializeQTable makes, with    *)
(* the row of the next state and the entry to update drawn, a transition   *)
(* and a list of valid next actions.                                       *)
(***************************************************************************)
\* the values drawn for the entries of the next state's row
QValues == {Num(-1 * SCALE), Num(0), Num(2 * SCALE)}

\* the rewards drawn
RewardValues == {Num(-1 * SCALE), Num(0), Num(100 * SCALE)}

\* the lists of valid next actions drawn
NextActionLists == {<<"up">>, <<"left", "right">>, ACTION_VALUES}

\* the states the transition goes between
UpdateStates == {0, 1}

\* reward + discountFactor * (the largest Q-value of the row over the actions)
BellmanTarget(qTable, reward, nextState, validNextActions, params) ==
    LET row == QRow(qTable, nextState).idx
        values == {row[actionToIndex(validNextActions[i]) + 1] :
                      i \in 1..Len(validNextActions)}
        best == CHOOSE v \in values : \A w \in values : v.n >= w.n
    IN  JsAdd(reward, JsMul(params.discountFactor, best))

InitUpdate ==
    /\ \E state \in UpdateStates, nextState \in UpdateStates, action \in {"up", "right"},
          reward \in RewardValues, validNextActions \in NextActionLists,
          nextRow \in [1..4 -> QValues], params \in ParamChoices :
          \E base \in {[initializeQTable(GridSize) EXCEPT
                            !.rows[nextState].idx = nextRow]} :
              \E currentQ \in {Num(0), Num(SCALE),
                                BellmanTarget(base, reward, nextState, validNextActions, params)} :
                  probe = [fn |-> "input", state |-> state, action |-> action,
                           reward |-> reward, nextState |-> nextState,
                           validNextActions |-> validNextActions, params |-> params,
                           qTable |-> SetQ(base, state, actionToIndex(action), currentQ)]
    /\ gridWorld = InitWorld.gridWorld
    /\ qLearning = InitWorld.qLearning
    /\ training = InitWorld.training
    /\ trainingRef = InitWorld.trainingRef
    /\ performanceRef = InitWorld.performanceRef
    /\ timers = InitWorld.timers
    /\ op = [name |-> "init", ret |-> TRUE]
    /\ halted = FALSE

ApplyQLearningUpdate ==
    /\ probe.fn = "input"
    /\ probe' = [probe EXCEPT !.fn = "qLearningUpdate",
                              !.qTable = qLearningUpdate(probe.qTable, probe.state,
                                             probe.action, probe.reward, probe.nextState,
                                             probe.validNextActions, probe.params)]
    /\ UNCHANGED <<gridWorld, qLearning, training, trainingRef, performanceRef, timers,
                   op, halted>>

NextUpdate == ApplyQLearningUpdate

SpecUpdate == InitUpdate /\ [][NextUpdate]_vars

(***************************************************************************)
(* performUpdate on an imported configuration: a Q-table, the parameters   *)
(* and the algorithm are imported, and performUpdate is called with a      *)
(* drawn transition from state 0 to state 1.                               *)
(***************************************************************************)
\* the rows imported for state 1, in units of SCALE
ImportedRows == {<<0, 0, 0, 0>>, <<2, 0, 0, 0>>, <<-1, 2, 2, 0>>}

ALGORITHMS == {"q-learning", "sarsa", "expected-sarsa"}

\* the configurations imported
ImportChoices ==
    {[qTable |-> [isArray |-> FALSE,
                  rows |-> [st \in States(GridSize) |->
                               IF st = 1
                               THEN [ArrayRow EXCEPT !.idx = [i \in 1..4 |-> Num(r[i] * SCALE)]]
                               ELSE ArrayRow]],
      parameters |-> params,
      algorithm |-> algorithm,
      explorationStrategy |-> "epsilon-greedy"] :
        r \in ImportedRows, params \in ParamChoices, algorithm \in ALGORITHMS}

InitImport ==
    /\ \E config \in ImportChoices :
          \E W \in {Effects(importConfiguration(InitWorld, config))} :
              /\ gridWorld = W.gridWorld
              /\ qLearning = W.qLearning
              /\ training = W.training
              /\ trainingRef = W.trainingRef
              /\ performanceRef = W.performanceRef
              /\ timers = W.timers
    /\ \E action \in {"up", "right"}, reward \in RewardValues, isDone \in BOOLEAN :
          probe = [fn |-> "input", state |-> 0, action |-> action, reward |-> reward,
                   nextState |-> 1, isDone |-> isDone]
    /\ op = [name |-> "init", ret |-> TRUE]
    /\ halted = FALSE

PerformUpdate ==
    \E W \in {performUpdate(Render(World), World, probe.state, probe.action, probe.reward,
                             probe.nextState, probe.isDone)} :
        Commit(W, "performUpdate", TRUE, halted)

NextImport == PerformUpdate

SpecImport == InitImport /\ [][NextImport]_vars

(***************************************************************************)
(* The probabilities of expectedSarsaUpdate on their own: the row of the   *)
(* next state, the list of valid next actions and epsilon are drawn.       *)
(***************************************************************************)
\* the values of epsilon drawn: 0, 0.1 and 1
EpsilonValues == {Num(0), Num(SCALE \div 10), Num(SCALE)}

InitProbs ==
    /\ \E nextRow \in [1..4 -> QValues], validNextActions \in NextActionLists,
          epsilon \in EpsilonValues :
          probe = [fn |-> "input", row |-> [ArrayRow EXCEPT !.idx = nextRow],
                   validNextActions |-> validNextActions, epsilon |-> epsilon]
    /\ gridWorld = InitWorld.gridWorld
    /\ qLearning = InitWorld.qLearning
    /\ training = InitWorld.training
    /\ trainingRef = InitWorld.trainingRef
    /\ performanceRef = InitWorld.performanceRef
    /\ timers = InitWorld.timers
    /\ op = [name |-> "init", ret |-> TRUE]
    /\ halted = FALSE

ApplyExpectedSarsaProbs ==
    /\ probe.fn = "input"
    /\ probe' = [fn |-> "expectedSarsaUpdate", row |-> probe.row,
                 validNextActions |-> probe.validNextActions, epsilon |-> probe.epsilon,
                 probs |-> ExpectedSarsaProbs(probe.row, probe.validNextActions,
                                              probe.epsilon)]
    /\ UNCHANGED <<gridWorld, qLearning, training, trainingRef, performanceRef, timers,
                   op, halted>>

NextProbs == ApplyExpectedSarsaProbs

SpecProbs == InitProbs /\ [][NextProbs]_vars

(***************************************************************************)
(* The setup of a session: useGridWorld is constructed with or without a    *)
(* start and a goal position, a Q-learning configuration is imported, cells *)
(* are toggled, and the training is started and stopped.                    *)
(***************************************************************************)
InitSetup ==
    /\ \E startPos \in {NoPos, InitGridWorld.startPos},
          goalPos \in {NoPos, InitGridWorld.goalPos} :
          \E W \in {Effects([gridWorld |-> [InitGridWorld EXCEPT !.startPos = startPos,
                                                                !.goalPos = goalPos],
                              qLearning |-> InitQLearning,
                              training |-> InitTraining,
                              trainingRef |-> [intervalId |-> NoTimer, lastEpsilonUpdate |-> 0],
                              performanceRef |-> [updateCount |-> 0,
                                                  lastConvergenceCheck |-> 0],
                              timers |-> <<>>])} :
              /\ gridWorld = W.gridWorld
              /\ qLearning = W.qLearning
              /\ training = W.training
              /\ trainingRef = W.trainingRef
              /\ performanceRef = W.performanceRef
              /\ timers = W.timers
    /\ op = [name |-> "init", ret |-> TRUE]
    /\ halted = FALSE
    /\ probe = NoProbe

ImportConfiguration ==
    \E config \in {c \in ImportChoices :
                      c.algorithm = "q-learning" /\ c.qTable.rows[1].idx[1] = Num(2 * SCALE)} :
        \E W \in {importConfiguration(World, config)} :
            Commit(W, "importConfiguration", TRUE, halted)

ToggleCell ==
    \E cell \in {<<1, 1>>} :
        \E W \in {toggleCell(Render(World), World, cell[1], cell[2])} :
            Commit(W, "toggleCell", TRUE, halted)

NextSetup ==
    \/ StartTraining
    \/ StopTraining
    \/ ImportConfiguration
    \/ ToggleCell

SpecSetup == InitSetup /\ [][NextSetup]_vars

(***************************************************************************)
(* The convergence checks of useQLearning: updates of one transition are    *)
(* performed until the check has been due twice, with initializeQLearning   *)
(* and reset called in between.                                             *)
(***************************************************************************)
MaxUpdates == 205

\* the handler has returned world W: the effects run, the state is W
CommitLong(W, name) ==
    \E E \in {Effects(W)} :
        /\ E.performanceRef.updateCount <= MaxUpdates
        /\ gridWorld' = E.gridWorld
        /\ qLearning' = E.qLearning
        /\ training' = E.training
        /\ trainingRef' = E.trainingRef
        /\ performanceRef' = E.performanceRef
        /\ timers' = E.timers
        /\ op' = [name |-> name, ret |-> TRUE]
        /\ UNCHANGED <<halted, probe>>

PerformUpdateLong ==
    \E W \in {performUpdate(Render(World), World, 0, "up", Num(0), 1, FALSE)} :
        CommitLong(W, "performUpdate")

InitializeQLearning ==
    \E W \in {initializeQLearning(Render(World), World)} :
        CommitLong(W, "initializeQLearning")

ResetQLearning ==
    \E W \in {reset(World)} : CommitLong(W, "reset")

NextConverge == PerformUpdateLong \/ InitializeQLearning \/ ResetQLearning

SpecConverge == Init /\ [][NextConverge]_vars

(***************************************************************************)
(* Action selection on its own: a configuration is imported, and            *)
(* selectActionForState and selectAction are applied to a state, a list of  *)
(* valid actions, a strategy, action counts and a number of steps drawn.    *)
(***************************************************************************)
\* the rows of state 0 drawn: zeros, distinct values, NaN (as training with
\* unset parameters leaves them) and values whose exponential overflows or
\* underflows
SelectRows ==
    {Zeros4,
     <<Num(0 - SCALE), Num(2 * SCALE), Num(2 * SCALE), Num(0)>>,
     <<NaN, NaN, NaN, NaN>>,
     <<Num(800 * SCALE), Num(0), Num(0 - 800 * SCALE), Num(0)>>}

\* the strategies drawn: the three of EXPLORATION_STRATEGIES, an unknown one and none
SelectStrategies == {"epsilon-greedy", "ucb", "boltzman", "softmax", "undefined"}

\* the parameters drawn: the user's, none, epsilon 0, and epsilon 1 with
\* temperature 0.001
SelectParams ==
    ParamChoices \cup {NoParams} \cup EpsilonChoices
    \cup {[NoParams EXCEPT !.epsilon = Num(SCALE), !.temperature = Num(1)]}

InitSelect ==
    /\ \E row \in SelectRows, params \in SelectParams, strategy \in SelectStrategies :
          /\ \E W \in {Effects(importConfiguration(InitWorld,
                           [qTable |-> [isArray |-> FALSE,
                                        rows |-> [st \in {0} |-> [ArrayRow EXCEPT !.idx = row]]],
                            parameters |-> params,
                            algorithm |-> "q-learning",
                            explorationStrategy |-> strategy]))} :
                /\ gridWorld = W.gridWorld
                /\ qLearning = W.qLearning
                /\ training = W.training
                /\ trainingRef = W.trainingRef
                /\ performanceRef = W.performanceRef
                /\ timers = W.timers
          /\ \E state \in UpdateStates \cup {NullState},
                validActions \in NextActionLists \cup {<<>>},
                actionCounts \in {NullCounts, Counts(<<0, 1, 4, 1>>), Counts(<<2, 2, 2, 2>>)},
                totalSteps \in {0, 2} :
                probe = [fn |-> "input", state |-> state, validActions |-> validActions,
                         strategy |-> strategy, actionCounts |-> actionCounts,
                         totalSteps |-> totalSteps, action |-> "null"]
    /\ op = [name |-> "init", ret |-> TRUE]
    /\ halted = FALSE

ApplySelectActionForState ==
    /\ probe.fn = "input"
    /\ \E action \in selectActionForState(Render(World), probe.state, probe.validActions) :
          probe' = [probe EXCEPT !.fn = "selectActionForState", !.action = action]
    /\ UNCHANGED <<gridWorld, qLearning, training, trainingRef, performanceRef, timers,
                   op, halted>>

ApplySelectAction ==
    /\ probe.fn = "input"
    /\ probe.state # NullState
    /\ \E action \in selectAction(qLearning.qTable, probe.state, probe.validActions,
                                  [epsilon |-> qLearning.parameters.epsilon,
                                   explorationStrategy |-> probe.strategy,
                                   temperature |-> qLearning.parameters.temperature],
                                  probe.actionCounts, probe.totalSteps) :
          probe' = [probe EXCEPT !.fn = "selectAction", !.action = action]
    /\ UNCHANGED <<gridWorld, qLearning, training, trainingRef, performanceRef, timers,
                   op, halted>>

NextSelect == ApplySelectActionForState \/ ApplySelectAction

SpecSelect == InitSelect /\ [][NextSelect]_vars

(***************************************************************************)
(* The configuration of useQLearning: a configuration is imported, updates  *)
(* are performed, the parameters, the algorithm, the exploration strategy   *)
(* and the reward structure are set, the configuration is exported once and *)
(* the exported record is imported later.                                   *)
(***************************************************************************)
\* the selectors the user submits: the known ones and an unknown one
AlgorithmChoices == {"sarsa", "dqn"}

StrategyChoices == {"ucb", "softmax"}

\* the number of updates performed in a round trip
MaxRoundTripUpdates == 2

PerformUpdateOnce ==
    /\ performanceRef.updateCount < MaxRoundTripUpdates
    /\ \E W \in {performUpdate(Render(World), World, 0, "up", Num(SCALE), 1, FALSE)} :
          Commit(W, "performUpdate", TRUE, halted)

SetAlgorithm ==
    \E alg \in AlgorithmChoices :
        \E W \in {setAlgorithm(World, alg)} : Commit(W, "setAlgorithm", TRUE, halted)

SetExplorationStrategy ==
    \E strategy \in StrategyChoices :
        \E W \in {setExplorationStrategy(World, strategy)} :
            Commit(W, "setExplorationStrategy", TRUE, halted)

SetRewardStructure ==
    \E rewards \in {REWARDS_SPARSE} :
        \E W \in {setRewardStructure(World, rewards)} :
            Commit(W, "setRewardStructure", TRUE, halted)

ExportConfiguration ==
    /\ probe.fn = "none"
    /\ probe' = [fn |-> "exportConfiguration", config |-> exportConfiguration(Render(World))]
    /\ op' = [name |-> "exportConfiguration", ret |-> TRUE]
    /\ UNCHANGED <<gridWorld, qLearning, training, trainingRef, performanceRef, timers,
                   halted>>

ImportExported ==
    /\ probe.fn = "exportConfiguration"
    /\ \E W \in {importConfiguration(World, probe.config)} :
          Commit(W, "importExported", TRUE, halted)

NextRoundTrip ==
    \/ ImportConfiguration
    \/ PerformUpdateOnce
    \/ UpdateParameters
    \/ SetAlgorithm
    \/ SetExplorationStrategy
    \/ SetRewardStructure
    \/ ExportConfiguration
    \/ ImportExported

SpecRoundTrip == Init /\ [][NextRoundTrip]_vars

(***************************************************************************)
(* The bounds check and the wall check on their own: a grid with walls and  *)
(* a row and a column, on the grid or one off it, are drawn.                *)
(***************************************************************************)
InitBounds ==
    /\ \E walls \in SUBSET WallCells :
          gridWorld = [InitWorld.gridWorld EXCEPT !.grid = walls]
    /\ \E row \in -1..GridSize, col \in -1..GridSize :
          probe = [fn |-> "input", row |-> row, col |-> col, result |-> FALSE]
    /\ qLearning = InitWorld.qLearning
    /\ training = InitWorld.training
    /\ trainingRef = InitWorld.trainingRef
    /\ performanceRef = InitWorld.performanceRef
    /\ timers = InitWorld.timers
    /\ op = [name |-> "init", ret |-> TRUE]
    /\ halted = FALSE

ApplyIsValidPosition ==
    /\ probe.fn = "input"
    /\ probe' = [probe EXCEPT !.fn = "isValidPosition",
                              !.result = isValidPosition(Num(probe.row), Num(probe.col),
                                                         Num(gridWorld.gridSize))]
    /\ UNCHANGED <<gridWorld, qLearning, training, trainingRef, performanceRef, timers,
                   op, halted>>

ApplyIsWall ==
    /\ probe.fn = "input"
    /\ probe' = [probe EXCEPT !.fn = "isWall",
                              !.result = isWall(JsGrid(gridWorld.grid, gridWorld.gridSize),
                                                Num(probe.row), Num(probe.col))]
    /\ UNCHANGED <<gridWorld, qLearning, training, trainingRef, performanceRef, timers,
                   op, halted>>

NextBounds == ApplyIsValidPosition \/ ApplyIsWall

SpecBounds == InitBounds /\ [][NextBounds]_vars

(***************************************************************************)
(* Training on a Q-table without a row for the start state: the start is    *)
(* moved, a configuration whose Q-table has a row for state 0 only is       *)
(* imported, and the training is started and stopped.                       *)
(***************************************************************************)
StartChoices == {<<1, 1>>}

UpdateStartPos ==
    \E newPos \in StartChoices :
        \E W \in {updateStartPos(Render(World), World, newPos)} :
            Commit(W, "updateStartPos", TRUE, halted)

ImportPartial ==
    \E W \in {importConfiguration(World,
                 [qTable |-> [isArray |-> FALSE, rows |-> [st \in {0} |-> ArrayRow]],
                  parameters |-> NoParams,
                  algorithm |-> "q-learning",
                  explorationStrategy |-> "epsilon-greedy"])} :
        Commit(W, "importConfiguration", TRUE, halted)

NextPartial ==
    \/ UpdateStartPos
    \/ ImportPartial
    \/ StartTraining
    \/ StopTraining
    \/ TickLoop

SpecPartial == Init /\ [][NextPartial]_vars

(***************************************************************************)
(* Training up to the episode limit and beyond: the limit is one episode    *)
(* less than TRAINING.MAX_EPISODES (setMaxEpisodes, before the run), so     *)
(* that episodes completed after the limit are within the model's caps.     *)
(***************************************************************************)
InitLimit ==
    /\ gridWorld = InitWorld.gridWorld
    /\ qLearning = InitWorld.qLearning
    /\ training = [InitWorld.training EXCEPT !.maxEpisodes = MAX_EPISODES - 1]
    /\ trainingRef = InitWorld.trainingRef
    /\ performanceRef = InitWorld.performanceRef
    /\ timers = InitWorld.timers
    /\ op = [name |-> "init", ret |-> TRUE]
    /\ halted = FALSE
    /\ probe = NoProbe

NextLimit ==
    \/ StartTraining
    \/ PauseTraining
    \/ ResumeTraining
    \/ StopTraining
    \/ StepOnce
    \/ TickLoop

SpecLimit == InitLimit /\ [][NextLimit]_vars

(***************************************************************************)
(* Editing the grid: cells are toggled and set, the start and the goal are  *)
(* moved, and the agent is moved.                                           *)
(***************************************************************************)
EditCells == {<<1, 1>>, <<1, 2>>, <<2, 2>>}

SetCellType ==
    \E cell \in EditCells, cellType \in {"wall", "empty"} :
        \E W \in {setCellType(Render(World), World, cell[1], cell[2], cellType)} :
            Commit(W, "setCellType", TRUE, halted)

UpdateGoalPos ==
    \E newPos \in EditCells :
        \E W \in {updateGoalPos(Render(World), World, newPos)} :
            Commit(W, "updateGoalPos", TRUE, halted)

NextGrid ==
    \/ ToggleCell
    \/ SetCellType
    \/ UpdateStartPos
    \/ UpdateGoalPos
    \/ MoveAgent

SpecGrid == Init /\ [][NextGrid]_vars

(***************************************************************************)
(* Properties                                                              *)
(***************************************************************************)
\* the scheduler is Running
Running == training.isTraining /\ ~training.isPaused

\* the pending ticks of the training loop
LoopTimers == {i \in 1..Len(timers) : timers[i].fn = "runTrainingLoop"}

\* this step has executed an environment step
Stepped ==
    /\ training'.currentStep = training.currentStep + 1
    /\ Len(training'.episodeTrajectory) = Len(training.episodeTrajectory) + 1

\* this step has completed an episode
Completed == Len(training'.episodeHistory) = Len(training.episodeHistory) + 1

\* C1: once the user has paused or stopped training, and until startTraining,
\* resumeTraining or stepOnce is called again, no timer armed before executes
\* an environment step and none restarts an episode.
C1_NoTimerActsAfterHalt ==
    [][halted =>
          /\ ~(op'.name = "runTrainingLoop" /\ Stepped)
          /\ ~(op'.name = "startNewEpisode" /\ training'.episodeSteps = 0
                 /\ ~training'.isEpisodeComplete)]_vars

\* C2: in every reachable state at most one tick of the training loop is
\* pending.
C2_AtMostOneTick == Cardinality(LoopTimers) <= 1

\* C3: stepOnce while Running returns false and changes no state; while not
\* Running it starts a new episode without a step if the episode had
\* completed or there is no agent position, and otherwise executes exactly
\* one environment step.
C3_StepOnce ==
    [][op'.name = "stepOnce" =>
          IF Running
          THEN /\ op'.ret = FALSE
               /\ UNCHANGED <<gridWorld, qLearning, training>>
          ELSE IF training.isEpisodeComplete \/ training.agentPosition = NoPos
          THEN /\ training'.currentStep = training.currentStep
               /\ training'.agentPosition = gridWorld.startPos
               /\ training'.episodeSteps = 0
               /\ ~training'.isEpisodeComplete
          ELSE Stepped]_vars

\* C5: when an episode completes while training is on, scheduling halts
\* (isTraining becomes false and no tick of the loop stays armed) if and only
\* if currentEpisode has reached maxEpisodes, or autoStop is on and the
\* convergence detector reports converged.
C5_HaltsIffDone ==
    [][training.isTraining /\ Completed =>
          ((~training'.isTraining /\ {i \in 1..Len(timers') :
                                         timers'[i].fn = "runTrainingLoop"} = {})
           <=> \/ training'.currentEpisode >= training'.maxEpisodes
               \/ training'.autoStop /\ Truthy(qLearning'.convergenceInfo.isConverged))]_vars

\* C6: the episode trajectory never holds more than MAX_STEPS_PER_EPISODE + 1
\* entries, and an episode whose step count has reached
\* MAX_STEPS_PER_EPISODE is marked complete.
C6_TrajectoryBounded ==
    /\ Len(training.episodeTrajectory) <= MAX_STEPS_PER_EPISODE + 1
    /\ training.episodeSteps >= MAX_STEPS_PER_EPISODE => training.isEpisodeComplete

\* C7: every record of episodeHistory has success = true or
\* steps = MAX_STEPS_PER_EPISODE.
C7_EpisodeEndCause ==
    \A i \in 1..Len(training.episodeHistory) :
        \/ training.episodeHistory[i].success
        \/ training.episodeHistory[i].steps = MAX_STEPS_PER_EPISODE

\* C9: in every reachable state the position the trainer steps from, once it
\* has one, equals the environment's agent position.
C9_OnePosition ==
    training.agentPosition # NoPos => training.agentPosition = gridWorld.agentPos

\* C10: in every reachable state parameters.epsilon >= parameters.minEpsilon.
C10_EpsilonFloor == JsGe(qLearning.parameters.epsilon, qLearning.parameters.minEpsilon)

\* the user has paused, stopped or reset training
UserHalt == op.name \in {"pauseTraining", "stopTraining", "resetTraining"}

\* the run has reached the stopped state at maxEpisodes, or on convergence
RunDone ==
    /\ ~training.isTraining
    /\ \/ training.currentEpisode = training.maxEpisodes
       \/ training.autoStop /\ Truthy(qLearning.convergenceInfo.isConverged)

\* a cap of the model is reached: beyond it the run is not explored
Horizon == ~InBounds([World EXCEPT !.training.currentStep = @ + 1,
                                   !.training.currentEpisode = @ + 1,
                                   !.qLearning.totalSteps = @ + 1,
                                   !.performanceRef.updateCount = @ + 1,
                                   !.timers = Append(@, <<>>)])

\* C4: under fair firing of the timers, a run that is Running and that the
\* user does not pause or stop eventually reaches the stopped state with
\* currentEpisode = maxEpisodes (or converged with autoStop), as far as the
\* caps of the model let it go.
C4_RunCompletes == [](Running => <>(RunDone \/ UserHalt \/ Horizon))

\* C8: executeStep on a free cell: an action whose target is a wall or off
\* the grid returns the current position, collision = true and the wall or
\* out-of-bounds penalty of the reward preset; an action whose target is a
\* free cell of the grid returns that cell and collision = false.
C8_ExecuteStep ==
    probe.fn = "executeStep" =>
        LET target == <<probe.pos[1] + ACTION_VECTORS(probe.action)[1],
                        probe.pos[2] + ACTION_VECTORS(probe.action)[2]>>
            r == probe.result
        IN  IF target \notin Cells(gridWorld.gridSize)
            THEN /\ r.nextPosition = probe.pos
                 /\ r.collision
                 /\ r.reward = RewardField(qLearning.rewardStructure, "OUT_OF_BOUNDS")
            ELSE IF target \in gridWorld.grid
            THEN /\ r.nextPosition = probe.pos
                 /\ r.collision
                 /\ r.reward = RewardField(qLearning.rewardStructure, "WALL")
            ELSE /\ r.nextPosition = target
                 /\ ~r.collision

\* C11: no operation of training (a step, an episode completion with its
\* decay; not the user's updateParameters) makes parameters.epsilon larger
\* than it was.
C11_EpsilonNonIncreasing ==
    [][op'.name # "updateParameters" =>
          ~JsGt(qLearning'.parameters.epsilon, qLearning.parameters.epsilon)]_vars

\* this step has applied the epsilon decay
DecayApplied == trainingRef'.lastEpsilonUpdate # trainingRef.lastEpsilonUpdate

\* C12: an episode completion applies the decay exactly when the number of
\* episodes completed in the session is a multiple of the decay interval
\* (10 in the code), and an application sets epsilon to
\* max(minEpsilon, epsilon * (1 - epsilonDecay)).
C12_DecayEveryTenth ==
    [][Completed =>
          /\ DecayApplied <=> training'.currentEpisode % EpsilonUpdateEvery = 0
          /\ DecayApplied =>
                qLearning'.parameters.epsilon =
                    MathMax(qLearning.parameters.minEpsilon,
                            JsMul(qLearning.parameters.epsilon,
                                  JsSub(Num(SCALE), qLearning.parameters.epsilonDecay)))]_vars

\* C13: a position of the grid converted to its state index and back is the
\* same position, and a state index converted to its position and back is
\* the same index.
C13_RoundTrip ==
    /\ probe.fn = "positionRoundTrip" => probe.back = probe.pos
    /\ probe.fn = "stateRoundTrip" => probe.back = probe.state

\* C13 witness: the cell of row 2, column 1 of a grid of side 3, through
\* state 7
C13_Witness ==
    /\ probe.fn = "positionRoundTrip"
    /\ probe.size = 3 /\ probe.pos = <<2, 1>> /\ probe.state = 7 /\ probe.back = <<2, 1>>

\* C14: getValidActions on a grid and a free position of it returns exactly
\* the actions whose target cell is on the grid and is no wall.
C14_ValidActions ==
    probe.fn = "getValidActions" =>
        {probe.result[i] : i \in 1..Len(probe.result)} =
            {a \in ActionSet :
                LET target == <<probe.pos[1] + ACTION_VECTORS(a)[1],
                                probe.pos[2] + ACTION_VECTORS(a)[2]>>
                IN  target \in Cells(gridWorld.gridSize) \ gridWorld.grid}

\* C15: calculateReward returns the out-of-bounds or wall penalty of the
\* preset when the move leaves the grid or enters a wall, the goal reward
\* when it reaches the goal, and the step cost otherwise.
C15_Reward ==
    probe.fn = "calculateReward" =>
        LET target == <<probe.pos[1] + ACTION_VECTORS(probe.action)[1],
                        probe.pos[2] + ACTION_VECTORS(probe.action)[2]>>
            preset == qLearning.rewardStructure
        IN  probe.result =
                IF target \notin Cells(gridWorld.gridSize)
                THEN RewardField(preset, "OUT_OF_BOUNDS")
                ELSE IF target \in gridWorld.grid THEN RewardField(preset, "WALL")
                ELSE IF target = gridWorld.goalPos THEN RewardField(preset, "GOAL")
                ELSE RewardField(preset, "STEP")

\* the entry to update holds the Bellman target of the drawn transition
AtFixedPoint ==
    QRow(probe.qTable, probe.state).idx[actionToIndex(probe.action) + 1] =
        BellmanTarget(probe.qTable, probe.reward, probe.nextState,
                      probe.validNextActions, probe.params)

\* C16: qLearningUpdate applied to a Q-table whose entry Q(s, a) equals
\* reward + discountFactor * max Q(nextState, a') leaves every entry of the
\* table as it was.
C16_FixedPointIdempotent ==
    [][probe.fn = "input" /\ probe'.fn = "qLearningUpdate" /\ AtFixedPoint
          => probe'.qTable = probe.qTable]_vars

\* C16 witness: an update was applied at a fixed point whose value is not 0
C16_Witness ==
    /\ probe.fn = "qLearningUpdate"
    /\ AtFixedPoint
    /\ probe.reward = Num(100 * SCALE)
    /\ QRow(probe.qTable, probe.state).idx[actionToIndex(probe.action) + 1].n > 100 * SCALE

\* the entry of the transition's state and action, read as the update
\* rules read it
UpdatedEntry(qTable) == QRow(qTable, probe.state).idx[actionToIndex(probe.action) + 1]

\* C17: with the algorithm SARSA, the update of a step sets Q(s, a) with the
\* target reward + discountFactor * Q(nextState, nextAction) of one next
\* action (a necessary condition of the claim: some next action gives the
\* value written).
C17_SarsaTarget ==
    [][op'.name = "performUpdate" /\ qLearning.algorithm = "sarsa" =>
          \E nextAction \in ActionSet :
              UpdatedEntry(qLearning'.qTable) =
                  TdUpdate(UpdatedEntry(qLearning.qTable), qLearning.parameters.learningRate,
                           JsOr(probe.reward, Num(0)), qLearning.parameters.discountFactor,
                           QRow(qLearning.qTable, probe.nextState).idx[
                               actionToIndex(nextAction) + 1])]_vars

\* C19: the update of a step whose transition reaches the goal (isDone) has
\* no next-state contribution: Q(s, a) becomes Q + learningRate * (reward - Q).
C19_TerminalNoBootstrap ==
    [][op'.name = "performUpdate" /\ probe.isDone =>
          UpdatedEntry(qLearning'.qTable) =
              TdUpdate(UpdatedEntry(qLearning.qTable), qLearning.parameters.learningRate,
                       JsOr(probe.reward, Num(0)), qLearning.parameters.discountFactor,
                       Num(0))]_vars

C21_UnseenStateAnyAction ==
    /\ probe.fn = "input"
    /\ probe.state # NullState
    /\ QRow(qLearning.qTable, probe.state).kind = "absent"
    => \A i \in 1..Len(probe.validActions) :
          ENABLED (ApplySelectActionForState /\ probe'.action = probe.validActions[i])

\* C21 witness: with the strategy ucb, the last of the four actions is
\* returned for state 1, which has no row
C21_Witness ==
    /\ probe.fn = "selectActionForState"
    /\ probe.state = 1
    /\ QRow(qLearning.qTable, 1).kind = "absent"
    /\ qLearning.explorationStrategy = "ucb"
    /\ probe.validActions = ACTION_VALUES
    /\ probe.action = "right"

\* C22: with a null state or an empty list of valid actions,
\* selectActionForState returns validActions[0] when it exists and 'up'
\* otherwise.
C22_MalformedInputFallback ==
    /\ probe.fn = "selectActionForState"
    /\ probe.state = NullState \/ Len(probe.validActions) = 0
    => probe.action = IF Len(probe.validActions) = 0 THEN "up" ELSE probe.validActions[1]

\* C23: over Q-values and visit counts that are equal for all the valid
\* actions, ucbAction returns the first valid action; the exploiting branch
\* of epsilonGreedyAction (epsilon 0) returns the first valid action whose
\* Q-value is the maximum.
C23_FirstOnTies ==
    LET acts == probe.validActions
        n == Len(acts)
        q(i) == QRow(qLearning.qTable, probe.state).idx[actionToIndex(acts[i]) + 1]
        count(i) == probe.actionCounts.row[actionToIndex(acts[i]) + 1]
    IN  probe.fn = "selectAction" /\ probe.action # Throws /\ n > 0 =>
            /\ (/\ probe.strategy = "ucb"
                /\ \A i, j \in 1..n : q(i) = q(j) /\ count(i) = count(j))
               => probe.action = acts[1]
            /\ (/\ probe.strategy = "epsilon-greedy"
                /\ qLearning.parameters.epsilon = Num(0)
                /\ \A i \in 1..n : q(i).k = "num")
               => \E i \in 1..n :
                     /\ probe.action = acts[i]
                     /\ \A j \in 1..n : q(i).n >= q(j).n
                     /\ \A j \in 1..(i - 1) : q(j).n < q(i).n

\* C23 witness: ucbAction over four actions of Q-value 0 and count 2 each,
\* after two steps, returns up
C23_Witness ==
    /\ probe.fn = "selectAction"
    /\ probe.strategy = "ucb"
    /\ probe.validActions = ACTION_VALUES
    /\ probe.actionCounts = Counts(<<2, 2, 2, 2>>)
    /\ probe.totalSteps = 2
    /\ QRow(qLearning.qTable, probe.state).idx = Zeros4
    /\ probe.action = "up"

\* a convergence check is evaluated in this step
Evaluated ==
    /\ op'.name = "performUpdate"
    /\ performanceRef'.lastConvergenceCheck # performanceRef.lastConvergenceCheck

\* C24: a check that is performed sets stableEpisodes to the previous value
\* + 1 when the detector reports convergence, and to 0 when it does not.
C24_StableEpisodes ==
    [][Evaluated =>
          qLearning'.convergenceInfo.stableEpisodes =
              IF checkConvergence(qLearning'.qTable, Num(1), Num(10 * SCALE)) = Bool(TRUE)
              THEN qLearning.convergenceInfo.stableEpisodes + 1
              ELSE 0]_vars

\* C25: when a check is evaluated, at least 100 updates have been performed
\* since the evaluation before it and since the last initialization or reset
\* (totalSteps counts the updates since then).
C25_SampledEveryHundred ==
    [][Evaluated =>
          /\ performanceRef'.updateCount - performanceRef.lastConvergenceCheck
                 >= ConvergenceCheckEvery
          /\ qLearning'.totalSteps >= ConvergenceCheckEvery]_vars

\* C26: startTraining with the Q-table not initialized, or the start or the
\* goal position missing, returns false and changes nothing: isTraining
\* stays false, no tick is armed, the counters, histories and trajectory
\* stay as they are.
C26_StartFailsOnIncompleteSetup ==
    [][/\ op'.name = "startTraining"
       /\ \/ ~qLearning.isInitialized
          \/ gridWorld.startPos = NoPos
          \/ gridWorld.goalPos = NoPos
       => /\ op'.ret = FALSE
          /\ ~training'.isTraining
          /\ training' = training
          /\ timers' = timers
          /\ trainingRef' = trainingRef]_vars

\* C26 witness: startTraining has failed with a Q-table imported and no
\* start position
C26_Witness ==
    /\ op.name = "startTraining"
    /\ op.ret = FALSE
    /\ qLearning.isInitialized
    /\ gridWorld.startPos = NoPos
    /\ ~training.isTraining

\* C27: a successful startTraining while no training runs resets the session
\* (episode and step counters 0, histories empty), enters Running
\* (isTraining, not isPaused) and gets the first step executed: a step has
\* run or a tick is armed when it returns.
C27_StartRuns ==
    [][op'.name = "startTraining" /\ op'.ret = TRUE /\ ~training.isTraining =>
          /\ training'.currentEpisode = 0
          /\ training'.episodeHistory = <<>>
          /\ training'.rewardHistory = <<>>
          /\ training'.stepsHistory = <<>>
          /\ training'.explorationHistory = <<>>
          /\ training'.isTraining /\ ~training'.isPaused
          /\ \/ trainingRef'.intervalId # NoTimer
             \/ training'.currentStep > 0
             \/ qLearning'.totalSteps > qLearning.totalSteps]_vars

\* the progress of a session: what pauseTraining is to leave alone
Progress ==
    <<training.currentEpisode, training.currentStep, training.episodeSteps,
      training.episodeReward, training.agentPosition, training.episodeTrajectory,
      training.episodeHistory, qLearning.qTable>>

\* C28: pauseTraining in a running session leaves the progress unchanged,
\* keeps isTraining and sets isPaused; resumeTraining in a paused session
\* clears isPaused and goes on stepping (a step has run or a tick is armed
\* when it returns); resumeTraining changes nothing when isTraining is false.
C28_PauseResume ==
    [][/\ (op'.name = "pauseTraining" /\ training.isTraining) =>
             /\ Progress' = Progress
             /\ training'.isTraining /\ training'.isPaused
       /\ (op'.name = "resumeTraining" /\ training.isTraining /\ training.isPaused) =>
             /\ ~training'.isPaused
             /\ \/ trainingRef'.intervalId # NoTimer
                \/ training'.currentStep > training.currentStep
                \/ training'.isEpisodeComplete
       /\ (op'.name = "resumeTraining" /\ ~training.isTraining) =>
             /\ training' = training
             /\ timers' = timers]_vars

\* C29: after resetTraining the scheduler is not running and no tick is
\* pending, the counters are 0 and the histories empty, the Q-table is the
\* one initializeQTable makes (all values zero), the convergence status is
\* { isConverged false, stableEpisodes 0 } and the update counters are 0.
C29_ResetClears ==
    op.name = "resetTraining" =>
        /\ ~training.isTraining /\ ~training.isPaused
        /\ timers = <<>>
        /\ training.currentEpisode = 0 /\ training.currentStep = 0
        /\ training.episodeSteps = 0 /\ training.episodeReward = Num(0)
        /\ training.episodeHistory = <<>> /\ training.rewardHistory = <<>>
        /\ training.stepsHistory = <<>> /\ training.explorationHistory = <<>>
        /\ qLearning.qTable = initializeQTable(gridWorld.gridSize)
        /\ qLearning.convergenceInfo = [isConverged |-> Bool(FALSE), stableEpisodes |-> 0]
        /\ qLearning.totalSteps = 0
        /\ performanceRef = [updateCount |-> 0, lastConvergenceCheck |-> 0]

\* C30: a reconfiguration of the grid (here toggleCell changing a cell)
\* happens only while no training runs, and after it the Q-table is the one
\* initializeQTable makes for the grid: all values zero.
C30_GridChangeInvalidates ==
    [][op'.name = "toggleCell" /\ gridWorld'.grid # gridWorld.grid =>
          /\ ~training.isTraining
          /\ qLearning'.qTable = initializeQTable(gridWorld'.gridSize)]_vars

\* v is a number of the closed interval [lo, hi] (fixed point)
WithinRange(v, lo, hi) == v.k = "num" /\ lo <= v.n /\ v.n <= hi

\* C31: after an updateParameters call the stored parameters are numbers
\* with learningRate in [0.001, 1], discountFactor in [0, 1], epsilon in
\* [0, 1], epsilonDecay in [0.001, 0.1], minEpsilon in [0, 0.5],
\* temperature > 0 and ucbC > 0.
C31_ParametersInRange ==
    op.name = "updateParameters" =>
        LET p == qLearning.parameters
        IN  /\ WithinRange(p.learningRate, 1, SCALE)
            /\ WithinRange(p.discountFactor, 0, SCALE)
            /\ WithinRange(p.epsilon, 0, SCALE)
            /\ WithinRange(p.epsilonDecay, 1, SCALE \div 10)
            /\ WithinRange(p.minEpsilon, 0, SCALE \div 2)
            /\ p.temperature.k = "num" /\ p.temperature.n > 0
            /\ p.ucbC.k = "num" /\ p.ucbC.n > 0

\* getGreedyPolicy(qTable, gridSize): for a table that is no array the loop
\* over qTable.length runs no turn
getGreedyPolicy(qTable) ==
    IF ~qTable.isArray THEN <<"null">>
    ELSE [i \in 1..Cardinality(DOMAIN qTable.rows) |->
             GreedyScan(QRow(qTable, i - 1), ACTION_VALUES, 1, "null", NegInfinity)]

C33_UnknownStrategyIsEpsilonGreedy ==
    (probe.fn = "selectAction" /\ probe.strategy \notin {"epsilon-greedy", "ucb", "boltzman"}) =>
        probe.action \in epsilonGreedyAction(qLearning.qTable, probe.state,
                                             qLearning.parameters.epsilon, probe.validActions)

\* C34: in every reachable state, every state with an entry in the Q-table
\* carries a number for each of the four actions under the key the update
\* rules and the action selection read (the action's index).
C34_NumericEntries ==
    \A st \in DOMAIN qLearning.qTable.rows :
        \A i \in 1..4 : qLearning.qTable.rows[st].idx[i].k = "num"

\* C35: the record an episode completion appends describes the whole
\* episode: its steps are the environment steps executed in the episode, its
\* reward is the sum of their rewards, and its trajectory has steps + 1
\* entries, the last one the agent's final position.
C35_RecordDescribesEpisode ==
    [][Completed =>
          LET record == training'.episodeHistory[Len(training'.episodeHistory)]
          IN  /\ record.steps = training'.episodeSteps
              /\ record.reward = training'.episodeReward
              /\ Len(record.trajectory) = record.steps + 1
              /\ record.trajectory[Len(record.trajectory)].position =
                     training'.agentPosition]_vars

\* C36: isValidPosition(row, col, size) is true exactly when
\* 0 <= row < size and 0 <= col < size.
C36_ValidIffInBounds ==
    probe.fn = "isValidPosition" =>
        (probe.result <=> /\ 0 <= probe.row /\ probe.row < gridWorld.gridSize
                          /\ 0 <= probe.col /\ probe.col < gridWorld.gridSize)

\* C37: a training step whose action is missing (executeStep's malformed
\* input) is counted in episodeSteps and currentStep with reward 0, and
\* leaves the agent on its current cell.
C37_MalformedStepRecovered ==
    [][(Stepped /\ training'.lastAction = "undefined") =>
          /\ training'.lastReward = Num(0)
          /\ training'.episodeSteps = training.episodeSteps + 1
          /\ training'.currentStep = training.currentStep + 1
          /\ training'.agentPosition = training.agentPosition]_vars

\* C38: in every reachable state the length of episodeHistory, and of
\* rewardHistory, stepsHistory and explorationHistory, equals currentEpisode
\* and the i-th record carries episode number i; and every step other than
\* a startTraining or a resetTraining (which run initializeTraining) leaves
\* the records there were in place.
C38_HistoryInStep ==
    /\ [](/\ Len(training.episodeHistory) = training.currentEpisode
          /\ Len(training.rewardHistory) = training.currentEpisode
          /\ Len(training.stepsHistory) = training.currentEpisode
          /\ Len(training.explorationHistory) = training.currentEpisode
          /\ \A i \in 1..Len(training.episodeHistory) :
                training.episodeHistory[i].episode = i)
    /\ [][op'.name \notin {"startTraining", "resetTraining"} =>
             /\ Len(training'.episodeHistory) >= Len(training.episodeHistory)
             /\ SubSeq(training'.episodeHistory, 1, Len(training.episodeHistory)) =
                    training.episodeHistory]_vars

\* C38 witness: two episodes have completed and a new one has been started
C38_Witness ==
    /\ Len(training.episodeHistory) = 2
    /\ training.currentEpisode = 2
    /\ ~training.isEpisodeComplete
    /\ training.episodeSteps = 0

\* C39: in every state reachable by start, pause, resume, stop, stepOnce and
\* the timers, currentEpisode <= maxEpisodes.
C39_EpisodeLimit == training.currentEpisode <= training.maxEpisodes

\* C40: after any sequence of grid operations the start, the goal and the
\* agent position are on the grid, the start and the goal are distinct, and
\* none of the three is on a wall cell.
C40_PositionsOnFreeCells ==
    /\ {gridWorld.startPos, gridWorld.goalPos, gridWorld.agentPos} \subseteq
           Cells(gridWorld.gridSize)
    /\ gridWorld.startPos # gridWorld.goalPos
    /\ {gridWorld.startPos, gridWorld.goalPos, gridWorld.agentPos} \cap gridWorld.grid = {}

RECURSIVE SumSeq(_, _)
\* the sum of the elements i..Len(seq) of a sequence of integers
SumSeq(seq, i) == IF i > Len(seq) THEN 0 ELSE seq[i] + SumSeq(seq, i + 1)

====
